---- MODULE Spec2Model ----
(***************************************************************************)
(* Angel Descent: platform pool, platform state machine, player physics    *)
(* and collision, level generator and frame loop.                          *)
(*                                                                         *)
(* Units.  JavaScript numbers are modelled by integers on a fixed grid:    *)
(*   time      1 tick  = 1/300 s   (TicksPerSecond)                        *)
(*   velocity  1 unit  = 1/30 px/s (VelScale)                              *)
(*   position  1 unit  = 1/9000 px (PX units per pixel), so that           *)
(*             position += velocity * dt needs no division.                *)
(*   friction, bounciness are in tenths, probabilities in per-mille.       *)
(* A JavaScript "undefined" numeric field is modelled as 0 and an          *)
(* undefined/false flag as FALSE.  Rendering, audio and particle fields    *)
(* are left out.                                                           *)
(***************************************************************************)
EXTENDS Integers, Sequences, FiniteSets, TLC

VARIABLES
  heap,       \* Seq of Platform records: every Platform object ever built; the index is its identity
  pools,      \* PlatformPool.pools: platform type -> free list (Seq of heap indices)
  stats,      \* PlatformPool.stats
  platforms,  \* AngelDescentGame.platforms (Seq of heap indices), or the objects a caller holds
  player,     \* the Player object
  game,       \* the AngelDescentGame fields
  gen,        \* the last result of the level generator
  now,        \* Date.now(), in ticks
  hist        \* history variables (never read by the program)

vars == <<heap, pools, stats, platforms, player, game, gen, now, hist>>

-----------------------------------------------------------------------------
(* Scales *)
TicksPerSecond == 10 * 30
VelScale == 2 * 15
PX == TicksPerSecond * VelScale

Abs(a) == IF a < 0 THEN -a ELSE a
Min(a, b) == IF a < b THEN a ELSE b
Max(a, b) == IF a > b THEN a ELSE b
\* integer quotient rounded toward zero
Trunc(a, b) == IF a >= 0 THEN a \div b ELSE -((-a) \div b)

\* F applied to the value of v: v is evaluated once, before F
With(v, F(_)) == CHOOSE r \in {F(x) : x \in {v}} : TRUE

SeqToSet(s) == {s[i] : i \in 1..Len(s)}
RemoveAt(s, i) == SubSeq(s, 1, i - 1) \o SubSeq(s, i + 1, Len(s))

-----------------------------------------------------------------------------
(* Platform (platform.js) *)

NORMAL == "normal"
FRAGILE == "fragile"
MOVING == "moving"
DISAPPEARING == "disappearing"
ICE == "ice"
BOUNCE == "bounce"
DANGEROUS == "dangerous"
PLATFORM_TYPES == <<NORMAL, FRAGILE, MOVING, DISAPPEARING, ICE, BOUNCE, DANGEROUS>>
PlatformTypeSet == SeqToSet(PLATFORM_TYPES)

FragileMaxSteps == 3
MovingSpeed == 30
MovingRange == 60
DisappearDelaySeconds == 1
IceFrictionTenths == 3
IceFreezeCooldownSeconds == 3
IceFreezeSeconds == 2
BounceTenths == 15
BounceImpulse == 400
DangerousChancePermille == 300
ContactResetPx == 50

\* Platform.initializeTypeProperties
InitializeTypeProperties(p) ==
  CASE p.platformType = NORMAL ->
         [p EXCEPT !.maxSteps = -1, !.friction = 10]
    [] p.platformType = FRAGILE ->
         [p EXCEPT !.maxSteps = FragileMaxSteps, !.friction = 10]
    [] p.platformType = MOVING ->
         [p EXCEPT !.maxSteps = -1, !.friction = 10,
                   !.moveSpeed = MovingSpeed * VelScale,
                   !.moveRange = MovingRange * PX,
                   !.startX = p.x, !.moveDirection = 1]
    [] p.platformType = DISAPPEARING ->
         [p EXCEPT !.maxSteps = 1,
                   !.disappearDelay = DisappearDelaySeconds * TicksPerSecond,
                   !.disappearTimer = 0, !.friction = 10]
    [] p.platformType = ICE ->
         [p EXCEPT !.maxSteps = -1, !.friction = IceFrictionTenths,
                   !.lastFreezeTime = 0,
                   !.freezeCooldown = IceFreezeCooldownSeconds * TicksPerSecond]
    [] p.platformType = BOUNCE ->
         [p EXCEPT !.maxSteps = -1, !.friction = 10, !.bounciness = BounceTenths]
    [] p.platformType = DANGEROUS ->
         [p EXCEPT !.maxSteps = -1, !.friction = 10,
                   !.damageChance = DangerousChancePermille, !.damageAmount = 1]
    [] OTHER -> p

\* new Platform(x, y, width, height, type, layer): Sprite fields, then the platform's
PlatformNew(x, y, width, height, type, layer) ==
  InitializeTypeProperties(
    [x |-> x, y |-> y, width |-> width, height |-> height,
     active |-> TRUE, visible |-> TRUE, destroyed |-> FALSE,
     platformType |-> type, layer |-> layer, solid |-> TRUE,
     activated |-> FALSE, stepCount |-> 0, lastContactedPlayer |-> FALSE,
     friction |-> 10, bounciness |-> 0,
     maxSteps |-> 0, moveSpeed |-> 0, moveRange |-> 0, startX |-> 0, moveDirection |-> 0,
     disappearDelay |-> 0, disappearTimer |-> 0,
     lastFreezeTime |-> 0, freezeCooldown |-> 0,
     damageChance |-> 0, damageAmount |-> 0,
     pooled |-> FALSE, lastUsedTime |-> 0])

\* Sprite.destroy
SpriteDestroy(s) == [s EXCEPT !.destroyed = TRUE, !.active = FALSE, !.visible = FALSE]

\* Sprite.reset, then Platform.reset
PlatformReset(p, t) ==
  [p EXCEPT !.destroyed = FALSE, !.active = TRUE, !.visible = TRUE,
            !.activated = FALSE, !.stepCount = 0, !.lastContactedPlayer = FALSE,
            !.friction = 10, !.bounciness = 0, !.solid = TRUE,
            !.moveDirection = 1, !.moveSpeed = 50 * VelScale,
            !.moveRange = MovingRange * PX, !.startX = 0,
            !.maxSteps = -1,
            !.disappearTimer = 0, !.disappearDelay = DisappearDelaySeconds * TicksPerSecond,
            !.damageChance = DangerousChancePermille, !.damageAmount = 1,
            !.pooled = FALSE, !.lastUsedTime = t]

\* a moving platform that turns at its left bound only
UpdateMovingPlatformOneWay(p, dt) ==
  LET nx == p.x + p.moveSpeed * p.moveDirection * dt
  IN  IF nx <= p.startX - p.moveRange
        THEN [p EXCEPT !.x = p.startX - p.moveRange, !.moveDirection = 1]
      ELSE [p EXCEPT !.x = nx]

\* Platform.updateMovingPlatform
UpdateMovingPlatform(p, dt) ==
  LET nx == p.x + p.moveSpeed * p.moveDirection * dt
  IN  IF nx <= p.startX - p.moveRange
        THEN [p EXCEPT !.x = p.startX - p.moveRange, !.moveDirection = 1]
      ELSE IF nx >= p.startX + p.moveRange
        THEN [p EXCEPT !.x = p.startX + p.moveRange, !.moveDirection = -1]
      ELSE [p EXCEPT !.x = nx]

\* Platform.updateDisappearingPlatform
UpdateDisappearingPlatform(p, dt) ==
  IF p.disappearTimer > 0
    THEN LET q == [p EXCEPT !.disappearTimer = p.disappearTimer - dt]
         IN  IF q.disappearTimer <= 0 THEN SpriteDestroy(q) ELSE q
    ELSE p

\* Platform.updateTypeSpecific
UpdateTypeSpecific(p, dt) ==
  CASE p.platformType = MOVING -> UpdateMovingPlatform(p, dt)
    [] p.platformType = DISAPPEARING -> UpdateDisappearingPlatform(p, dt)
    [] OTHER -> p

\* Platform.update (a platform's velocity is always 0, so Sprite.update moves nothing)
PlatformUpdate(p, dt) ==
  IF p.destroyed THEN p ELSE UpdateTypeSpecific(p, dt)

-----------------------------------------------------------------------------
(* Player (player.js) *)

PlayerSpawnX2 == 375
PlayerSpawnY == 100
PlayerWidth == 42
PlayerHeight == 63
PlayerMaxLives == 3
Gravity == 980
HorizontalSpeed == 200
MaxFallSpeed == 600
InvulnerabilitySeconds == 2
FootBoxHeight == 8
FootBoxWidth == 12
ScreenWidth == 375

\* collisionBox = {x: -6, y: 23.5, width: 12, height: 8}
FootBoxX == -((FootBoxWidth * PX) \div 2)
FootBoxY == (PlayerHeight * PX) \div 2 - FootBoxHeight * PX

\* new Player(187.5, 100)
PlayerNew ==
  [x |-> (PlayerSpawnX2 * PX) \div 2, y |-> PlayerSpawnY * PX,
   width |-> PlayerWidth * PX, height |-> PlayerHeight * PX,
   vx |-> 0, vy |-> 0,
   active |-> TRUE, visible |-> TRUE, destroyed |-> FALSE,
   lives |-> PlayerMaxLives, maxLives |-> PlayerMaxLives,
   onGround |-> FALSE, wasOnGroundLastFrame |-> FALSE, groundTime |-> 0,
   isInvulnerable |-> FALSE, invulnerabilityTime |-> 0,
   isFrozen |-> FALSE, freezeTime |-> 0,
   leftPressed |-> FALSE, rightPressed |-> FALSE]

\* Player.setInput
SetInput(pl, left, right) == [pl EXCEPT !.leftPressed = left, !.rightPressed = right]

\* an updateInput that does not look at the frozen flag
UpdateInputThawed(pl) ==
  IF pl.leftPressed THEN [pl EXCEPT !.vx = -(HorizontalSpeed * VelScale)]
  ELSE IF pl.rightPressed THEN [pl EXCEPT !.vx = HorizontalSpeed * VelScale]
  ELSE LET v == Trunc(pl.vx * 85, 100)
       IN  [pl EXCEPT !.vx = IF Abs(v) < 5 * VelScale THEN 0 ELSE v]

\* Player.updateInput
UpdateInput(pl) ==
  IF pl.isFrozen THEN [pl EXCEPT !.vx = 0]
  ELSE IF pl.leftPressed THEN [pl EXCEPT !.vx = -(HorizontalSpeed * VelScale)]
  ELSE IF pl.rightPressed THEN [pl EXCEPT !.vx = HorizontalSpeed * VelScale]
  ELSE LET v == Trunc(pl.vx * 85, 100)
       IN  [pl EXCEPT !.vx = IF Abs(v) < 5 * VelScale THEN 0 ELSE v]

WorldHalfWidth == (ScreenWidth * 3 * PX) \div 2

\* Player.updatePhysics
UpdatePhysics(pl, dt) ==
  LET vy1 == IF ~pl.onGround
               THEN Min(pl.vy + (Gravity * VelScale * dt) \div TicksPerSecond,
                        MaxFallSpeed * VelScale)
               ELSE pl.vy
      x1 == pl.x + pl.vx * dt
      y1 == pl.y + vy1 * dt
  IN  [pl EXCEPT !.vy = vy1,
                 !.groundTime = IF pl.onGround THEN pl.groundTime + dt ELSE pl.groundTime,
                 !.x = Max(-WorldHalfWidth, Min(WorldHalfWidth, x1)),
                 !.y = y1,
                 !.wasOnGroundLastFrame = pl.onGround,
                 !.onGround = FALSE]

\* Player.updateStates
UpdateStates(pl, dt) ==
  LET a == IF pl.isInvulnerable
             THEN IF pl.invulnerabilityTime - dt <= 0
                    THEN [pl EXCEPT !.isInvulnerable = FALSE, !.invulnerabilityTime = 0]
                    ELSE [pl EXCEPT !.invulnerabilityTime = pl.invulnerabilityTime - dt]
             ELSE pl
  IN  IF a.isFrozen
        THEN IF a.freezeTime - dt <= 0
               THEN [a EXCEPT !.isFrozen = FALSE, !.freezeTime = 0]
               ELSE [a EXCEPT !.freezeTime = a.freezeTime - dt]
        ELSE a

\* Sprite.update
SpriteUpdate(s, dt) ==
  IF ~s.active \/ s.destroyed THEN s
  ELSE [s EXCEPT !.x = s.x + s.vx * dt, !.y = s.y + s.vy * dt]

\* Player.update: input, physics, states, then super.update
PlayerUpdate(pl, dt) ==
  SpriteUpdate(UpdateStates(UpdatePhysics(UpdateInput(pl), dt), dt), dt)

\* a landOnPlatform that leaves the player where the fall has taken it
LandOnPlatformSunk(pl, p) ==
  LET b == IF p.platformType # BOUNCE
             THEN [pl EXCEPT !.vy = 0, !.onGround = TRUE]
             ELSE pl
  IN  [b EXCEPT !.groundTime = 0]

\* Player.landOnPlatform
LandOnPlatform(pl, p) ==
  LET a == [pl EXCEPT !.y = p.y - p.height \div 2 - pl.height \div 2]
      b == IF p.platformType # BOUNCE
             THEN [a EXCEPT !.vy = 0, !.onGround = TRUE]
             ELSE a
  IN  [b EXCEPT !.groundTime = 0]

\* Player.die: the result carries whether 'death' was emitted
Die(pl) ==
  IF pl.destroyed THEN [pl |-> pl, death |-> FALSE]
  ELSE [pl |-> [pl EXCEPT !.destroyed = TRUE], death |-> TRUE]

\* a takeDamage that never calls die
TakeDamageNoDeath(pl, damage) ==
  IF pl.isInvulnerable \/ pl.destroyed
    THEN [pl |-> pl, ret |-> FALSE, death |-> FALSE]
    ELSE [pl |-> [pl EXCEPT !.lives = pl.lives - damage,
                            !.isInvulnerable = TRUE,
                            !.invulnerabilityTime = InvulnerabilitySeconds * TicksPerSecond],
          ret |-> FALSE, death |-> FALSE]

\* a takeDamage that does not look at the invulnerable flag
TakeDamageThrough(pl, damage) ==
  IF pl.destroyed
    THEN [pl |-> pl, ret |-> FALSE, death |-> FALSE]
    ELSE LET a == [pl EXCEPT !.lives = pl.lives - damage,
                             !.isInvulnerable = TRUE,
                             !.invulnerabilityTime = InvulnerabilitySeconds * TicksPerSecond]
         IN  IF a.lives <= 0
               THEN [pl |-> Die(a).pl, ret |-> TRUE, death |-> Die(a).death]
               ELSE [pl |-> a, ret |-> FALSE, death |-> FALSE]

\* Player.takeDamage: [pl, ret, death]
TakeDamage(pl, damage) ==
  IF pl.isInvulnerable \/ pl.destroyed
    THEN [pl |-> pl, ret |-> FALSE, death |-> FALSE]
    ELSE LET a == [pl EXCEPT !.lives = pl.lives - damage,
                             !.isInvulnerable = TRUE,
                             !.invulnerabilityTime = InvulnerabilitySeconds * TicksPerSecond]
         IN  IF a.lives <= 0
               THEN [pl |-> Die(a).pl, ret |-> TRUE, death |-> Die(a).death]
               ELSE [pl |-> a, ret |-> FALSE, death |-> FALSE]

\* Player.freeze
Freeze(pl, duration) ==
  IF pl.destroyed THEN pl
  ELSE [pl EXCEPT !.isFrozen = TRUE, !.freezeTime = duration, !.vx = 0]

-----------------------------------------------------------------------------
(* Platform: stepping and collision *)

\* a pool reset that leaves out initializeTypeProperties
ResetPlatformNoInit(p, type, x, y, width, height, layer, t) ==
  [PlatformReset(p, t) EXCEPT !.x = x, !.y = y, !.width = width, !.height = height,
                              !.platformType = type, !.layer = layer]

\* a fragile step that breaks one call late
HandleFragileStepLate(p) ==
  IF p.stepCount > p.maxSteps THEN SpriteDestroy(p) ELSE p

\* a disappearing step that restarts the countdown on every call
HandleDisappearingStepRestart(p) ==
  [p EXCEPT !.disappearTimer = p.disappearDelay]

\* a bounce step that ignores the platform's bounciness
HandleBounceStepPlain(p, pl) ==
  [pl EXCEPT !.vy = -(BounceImpulse * VelScale), !.onGround = FALSE]

\* Platform.handleFragileStep (stepCount already incremented)
HandleFragileStep(p) ==
  IF p.stepCount >= p.maxSteps THEN SpriteDestroy(p) ELSE p

\* Platform.handleDisappearingStep
HandleDisappearingStep(p) ==
  IF p.stepCount = 1 /\ p.disappearTimer <= 0
    THEN [p EXCEPT !.disappearTimer = p.disappearDelay]
    ELSE p

\* Platform.handleBounceStep: the player's part
HandleBounceStep(p, pl) ==
  [pl EXCEPT !.vy = -((BounceImpulse * VelScale * p.bounciness) \div 10),
             !.onGround = FALSE]

\* a handleIceStep that does not look at the cooldown
HandleIceStepEager(p, pl, t) ==
  [p |-> [p EXCEPT !.lastFreezeTime = t],
   pl |-> Freeze(pl, IceFreezeSeconds * TicksPerSecond), death |-> FALSE]

\* Platform.handleIceStep: [p, pl]; t is Date.now()
HandleIceStep(p, pl, t) ==
  IF t - p.lastFreezeTime > p.freezeCooldown
    THEN [p |-> [p EXCEPT !.lastFreezeTime = t],
          pl |-> Freeze(pl, IceFreezeSeconds * TicksPerSecond), death |-> FALSE]
    ELSE [p |-> p, pl |-> pl, death |-> FALSE]

\* Platform.handleDangerousStep: rnd is Math.random() in per-mille
HandleDangerousStep(p, pl, rnd) ==
  IF rnd < p.damageChance
    THEN [p |-> p, pl |-> TakeDamage(pl, p.damageAmount).pl,
          death |-> TakeDamage(pl, p.damageAmount).death]
    ELSE [p |-> p, pl |-> pl, death |-> FALSE]

\* Platform.handleTypeSpecificStep
HandleTypeSpecificStep(p, pl, rnd, t) ==
  CASE p.platformType = FRAGILE -> [p |-> HandleFragileStep(p), pl |-> pl, death |-> FALSE]
    [] p.platformType = DISAPPEARING ->
         [p |-> HandleDisappearingStep(p), pl |-> pl, death |-> FALSE]
    [] p.platformType = BOUNCE -> [p |-> p, pl |-> HandleBounceStep(p, pl), death |-> FALSE]
    [] p.platformType = ICE -> HandleIceStep(p, pl, t)
    [] p.platformType = DANGEROUS -> HandleDangerousStep(p, pl, rnd)
    [] OTHER -> [p |-> p, pl |-> pl, death |-> FALSE]

\* an onPlayerStep that does not look at the solid and destroyed flags
OnPlayerStepUnguarded(p, pl, rnd, t) ==
  LET q == [p EXCEPT !.activated = TRUE, !.stepCount = p.stepCount + 1]
      r == HandleTypeSpecificStep(q, pl, rnd, t)
  IN  [p |-> r.p, pl |-> r.pl, ret |-> TRUE, death |-> r.death]

\* Platform.onPlayerStep: [p, pl, ret, death]
OnPlayerStep(p, pl, rnd, t) ==
  IF ~p.solid \/ p.destroyed
    THEN [p |-> p, pl |-> pl, ret |-> FALSE, death |-> FALSE]
    ELSE LET q == [p EXCEPT !.activated = TRUE, !.stepCount = p.stepCount + 1]
             r == HandleTypeSpecificStep(q, pl, rnd, t)
         IN  [p |-> r.p, pl |-> r.pl, ret |-> TRUE, death |-> r.death]

\* the overlap test of Platform.checkCollisionWithPlayer: the player's foot box
\* against the platform's box at 1.4 times its width
Overlapping(p, pl) ==
  LET playerLeft == pl.x + FootBoxX
      playerRight == pl.x + FootBoxX + FootBoxWidth * PX
      playerTop == pl.y + FootBoxY
      playerBottom == pl.y + FootBoxY + FootBoxHeight * PX
      visualHalf == (p.width * 14) \div 20
  IN  /\ playerRight > p.x - visualHalf
      /\ playerLeft < p.x + visualHalf
      /\ playerBottom > p.y - p.height \div 2
      /\ playerTop < p.y + p.height \div 2

\* a checkCollisionWithPlayer that confirms a rising player only
CheckCollisionWithPlayerRising(p, pl) ==
  IF ~p.solid \/ p.destroyed THEN [p |-> p, hit |-> FALSE]
  ELSE IF Overlapping(p, pl) /\ pl.vy < 0 /\ pl.y < p.y /\ ~p.lastContactedPlayer
    THEN [p |-> [p EXCEPT !.lastContactedPlayer = TRUE], hit |-> TRUE]
  ELSE IF ~Overlapping(p, pl) \/ Abs(pl.y - p.y) > ContactResetPx * PX
    THEN [p |-> [p EXCEPT !.lastContactedPlayer = FALSE], hit |-> FALSE]
  ELSE [p |-> p, hit |-> FALSE]

\* Platform.checkCollisionWithPlayer: [p, hit]
CheckCollisionWithPlayer(p, pl) ==
  IF ~p.solid \/ p.destroyed THEN [p |-> p, hit |-> FALSE]
  ELSE IF Overlapping(p, pl) /\ pl.vy > 0 /\ pl.y < p.y /\ ~p.lastContactedPlayer
    THEN [p |-> [p EXCEPT !.lastContactedPlayer = TRUE], hit |-> TRUE]
  ELSE IF ~Overlapping(p, pl) \/ Abs(pl.y - p.y) > ContactResetPx * PX
    THEN [p |-> [p EXCEPT !.lastContactedPlayer = FALSE], hit |-> FALSE]
  ELSE [p |-> p, hit |-> FALSE]

-----------------------------------------------------------------------------
(* LevelGenerator: difficulty (level-generator.js) *)

MinPlatforms == 2
MaxPlatforms == 5
PlatformReductionTenths == 2
SpecialIncreasePercent == 1
SpecialBasePercent == 30
SpecialCapPercent == 70
LayerHeightPx == 600
MaxLayer == 100

\* a difficulty whose special-platform chance has no cap
CalculateDifficultyUncapped(layerNum) ==
  [platformCount |-> Max(MinPlatforms * 10,
                         MaxPlatforms * 10 - (layerNum \div 10) * PlatformReductionTenths),
   specialPlatformChance |-> SpecialBasePercent + layerNum * SpecialIncreasePercent,
   movePlatformSpeed |-> MovingSpeed * VelScale + (layerNum * VelScale) \div 2,
   fragilePlatformDurability |-> Max(1, FragileMaxSteps - layerNum \div 20)]

\* LevelGenerator.calculateDifficulty: platformCount in tenths, specialPlatformChance
\* in percent, movePlatformSpeed in velocity units
CalculateDifficulty(layerNum) ==
  [platformCount |-> Max(MinPlatforms * 10,
                         MaxPlatforms * 10 - (layerNum \div 10) * PlatformReductionTenths),
   specialPlatformChance |-> Min(SpecialCapPercent,
                                 SpecialBasePercent + layerNum * SpecialIncreasePercent),
   movePlatformSpeed |-> MovingSpeed * VelScale + (layerNum * VelScale) \div 2,
   fragilePlatformDurability |-> Max(1, FragileMaxSteps - layerNum \div 20)]

\* an applySpecialPlatformProperties without the case of the Fragile platform
ApplySpecialPlatformPropertiesPlain(p, difficulty) ==
  CASE p.platformType = MOVING ->
         [p EXCEPT !.moveSpeed = difficulty.movePlatformSpeed]
    [] OTHER -> p

\* LevelGenerator.applySpecialPlatformProperties
ApplySpecialPlatformProperties(p, difficulty) ==
  CASE p.platformType = MOVING ->
         [p EXCEPT !.moveSpeed = difficulty.movePlatformSpeed]
    [] p.platformType = FRAGILE ->
         [p EXCEPT !.maxSteps = difficulty.fragilePlatformDurability]
    [] p.platformType = DISAPPEARING ->
         [p EXCEPT !.disappearDelay =
            Max(TicksPerSecond \div 2,
                (3 * TicksPerSecond) \div 2
                  - (difficulty.specialPlatformChance * TicksPerSecond) \div 100)]
    [] p.platformType = DANGEROUS ->
         [p EXCEPT !.damageChance = Min(500, 200 + difficulty.specialPlatformChance * 3),
                   !.damageAmount = 1]
    [] OTHER -> p

-----------------------------------------------------------------------------
(* PlatformPool (platform-pool.js).  Operators take and return a world record *)
(* w = [heap, pools, stats, platforms, player, game, gen, now, ret, events].  *)

PoolInitialSize == 5
PoolMaxSize == 50
CleanupThreshold == 20
MaxIdleSeconds == 30

\* the world a handler starts from
World ==
  [heap |-> heap, pools |-> pools, stats |-> stats, platforms |-> platforms,
   player |-> player, game |-> game, gen |-> gen, now |-> now,
   ret |-> 0, events |-> <<>>]

\* the world a handler leaves (history is updated by the action itself)
Commit(v) ==
  \E w \in {v} :
    /\ heap' = w.heap /\ pools' = w.pools /\ stats' = w.stats
    /\ platforms' = w.platforms /\ player' = w.player /\ game' = w.game
    /\ gen' = w.gen

\* PlatformPool.createNewPlatform: the new object's index is w.ret
CreateNewPlatform(w, type, x, y, width, height, layer) ==
  [w EXCEPT !.heap = Append(w.heap, PlatformNew(x, y, width, height, type, layer)),
            !.ret = Len(w.heap) + 1]

\* PlatformPool.resetPlatform
ResetPlatform(p, type, x, y, width, height, layer, t) ==
  LET a == PlatformReset(p, t)
      b == InitializeTypeProperties(
             [a EXCEPT !.x = x, !.y = y, !.width = width, !.height = height,
                       !.platformType = type, !.layer = layer])
  IN  [b EXCEPT !.activated = FALSE, !.stepCount = 0, !.lastContactedPlayer = FALSE,
                !.destroyed = FALSE, !.active = TRUE, !.visible = TRUE]

\* a get that leaves the object it hands out on the free list
PoolGetKeep(w, type, x, y, width, height, layer) ==
  IF type \notin DOMAIN w.pools
    THEN CreateNewPlatform(w, type, x, y, width, height, layer)
    ELSE LET pool == w.pools[type]
             Handed(a) ==
               LET q == ResetPlatform(a.heap[a.ret], type, x, y, width, height, layer,
                                      w.now)
               IN  [a EXCEPT !.heap[a.ret] = [q EXCEPT !.pooled = FALSE,
                                                       !.lastUsedTime = w.now],
                             !.stats.currentActive = @ + 1]
         IN  With(IF Len(pool) > 0
                    THEN [w EXCEPT !.ret = pool[Len(pool)],
                                   !.stats.totalReused = @ + 1]
                    ELSE [CreateNewPlatform(w, type, x, y, width, height, layer)
                            EXCEPT !.stats.totalCreated = @ + 1],
                  Handed)

\* a get that counts the platform of an unknown type as created and active
PoolGetCounted(w, type, x, y, width, height, layer) ==
  IF type \notin DOMAIN w.pools
    THEN [CreateNewPlatform(w, type, x, y, width, height, layer)
            EXCEPT !.stats.totalCreated = @ + 1, !.stats.currentActive = @ + 1]
    ELSE LET pool == w.pools[type]
             Handed(a) ==
               LET q == ResetPlatform(a.heap[a.ret], type, x, y, width, height, layer,
                                      w.now)
               IN  [a EXCEPT !.heap[a.ret] = [q EXCEPT !.pooled = FALSE,
                                                       !.lastUsedTime = w.now],
                             !.stats.currentActive = @ + 1]
         IN  With(IF Len(pool) > 0
                    THEN [w EXCEPT !.ret = pool[Len(pool)],
                                   !.pools[type] = SubSeq(pool, 1, Len(pool) - 1),
                                   !.stats.totalReused = @ + 1]
                    ELSE [CreateNewPlatform(w, type, x, y, width, height, layer)
                            EXCEPT !.stats.totalCreated = @ + 1],
                  Handed)

\* PlatformPool.get: the object's index is w.ret
PoolGet(w, type, x, y, width, height, layer) ==
  IF type \notin DOMAIN w.pools
    THEN CreateNewPlatform(w, type, x, y, width, height, layer)
    ELSE LET pool == w.pools[type]
             Handed(a) ==
               LET q == ResetPlatform(a.heap[a.ret], type, x, y, width, height, layer,
                                      w.now)
               IN  [a EXCEPT !.heap[a.ret] = [q EXCEPT !.pooled = FALSE,
                                                       !.lastUsedTime = w.now],
                             !.stats.currentActive = @ + 1]
         IN  With(IF Len(pool) > 0
                    THEN [w EXCEPT !.ret = pool[Len(pool)],
                                   !.pools[type] = SubSeq(pool, 1, Len(pool) - 1),
                                   !.stats.totalReused = @ + 1]
                    ELSE [CreateNewPlatform(w, type, x, y, width, height, layer)
                            EXCEPT !.stats.totalCreated = @ + 1],
                  Handed)

\* a release without the test of the pooled mark
PoolReleaseAgain(w, i) ==
  LET p == w.heap[i]
  IN  IF p.platformType \notin DOMAIN w.pools THEN w
      ELSE IF Len(w.pools[p.platformType]) >= PoolMaxSize THEN w
      ELSE [w EXCEPT !.heap[i] = [PlatformReset(p, w.now) EXCEPT !.pooled = TRUE,
                                                                !.lastUsedTime = w.now],
                     !.pools[p.platformType] = Append(@, i),
                     !.stats.totalReleased = @ + 1,
                     !.stats.currentActive = @ - 1]

\* a release without the test of the free list's length
PoolReleaseUnbounded(w, i) ==
  LET p == w.heap[i]
  IN  IF p.pooled THEN w
      ELSE IF p.platformType \notin DOMAIN w.pools THEN w
      ELSE [w EXCEPT !.heap[i] = [PlatformReset(p, w.now) EXCEPT !.pooled = TRUE,
                                                                !.lastUsedTime = w.now],
                     !.pools[p.platformType] = Append(@, i),
                     !.stats.totalReleased = @ + 1,
                     !.stats.currentActive = @ - 1]

\* PlatformPool.release
PoolRelease(w, i) ==
  LET p == w.heap[i]
  IN  IF p.pooled THEN w
      ELSE IF p.platformType \notin DOMAIN w.pools THEN w
      ELSE IF Len(w.pools[p.platformType]) >= PoolMaxSize THEN w
      ELSE [w EXCEPT !.heap[i] = [PlatformReset(p, w.now) EXCEPT !.pooled = TRUE,
                                                                !.lastUsedTime = w.now],
                     !.pools[p.platformType] = Append(@, i),
                     !.stats.totalReleased = @ + 1,
                     !.stats.currentActive = @ - 1]

\* the objects of a free list that PlatformPool.cleanup keeps
KeepFresh(w, pool) ==
  LET Fresh(i) == w.now - w.heap[i].lastUsedTime <= MaxIdleSeconds * TicksPerSecond
  IN  SelectSeq(pool, Fresh)

\* a cleanup that does not look at the length of the free lists
PoolCleanupAll(w) ==
  [w EXCEPT !.pools = [t \in DOMAIN w.pools |-> KeepFresh(w, w.pools[t])]]

\* PlatformPool.cleanup
PoolCleanup(w) ==
  [w EXCEPT !.pools = [t \in DOMAIN w.pools |->
                         IF Len(w.pools[t]) <= CleanupThreshold
                           THEN w.pools[t]
                           ELSE KeepFresh(w, w.pools[t])]]

\* the number of objects preWarmPools creates for a type
PreWarmCount(type) == IF type = NORMAL THEN PoolInitialSize * 2 ELSE PoolInitialSize

\* the number of objects preWarmPools creates for the types before position k
RECURSIVE PreWarmBefore(_)
PreWarmBefore(k) ==
  IF k <= 1 THEN 0
  ELSE With(k - 1, LAMBDA j : PreWarmBefore(j) + PreWarmCount(PLATFORM_TYPES[j]))

\* PlatformPool.preWarmPools: per type, in the order of PLATFORM_TYPES, new objects
\* marked pooled and pushed on the type's free list
PreWarmPools(w) ==
  LET base == Len(w.heap)
      total == PreWarmBefore(Len(PLATFORM_TYPES) + 1)
      typeAt(i) == PLATFORM_TYPES[CHOOSE k \in 1..Len(PLATFORM_TYPES) :
                                    /\ PreWarmBefore(k) < i
                                    /\ i <= PreWarmBefore(k + 1)]
      made == [i \in 1..total |->
                 [PlatformNew(0, 0, 80 * PX, 20 * PX, typeAt(i), 1)
                    EXCEPT !.pooled = TRUE, !.lastUsedTime = w.now]]
  IN  [w EXCEPT !.heap = @ \o made,
                !.pools = [t \in DOMAIN w.pools |->
                             LET k == CHOOSE n \in 1..Len(PLATFORM_TYPES) :
                                        PLATFORM_TYPES[n] = t
                             IN  w.pools[t] \o
                                   [n \in 1..PreWarmCount(t) |->
                                      base + PreWarmBefore(k) + n]]]

-----------------------------------------------------------------------------
(* LevelGenerator: layers (level-generator.js).  The Math.random() values one  *)
(* platform consumes are a draw [ry, rx, rs, rp, rw], each in per-mille.       *)

\* LevelGenerator.getThemeForLayer
GetThemeForLayer(layerNum) ==
  IF layerNum <= 25 THEN "dawn"
  ELSE IF layerNum <= 50 THEN "cloud"
  ELSE IF layerNum <= 75 THEN "thunder"
  ELSE "earth"

\* LevelGenerator.initializeThemeConfigs: the platform types of a theme
ThemeConfigs(theme) ==
  CASE theme = "dawn" ->
         [primaryPlatforms |-> <<NORMAL, FRAGILE>>,
          specialPlatforms |-> <<DISAPPEARING, MOVING, DANGEROUS>>]
    [] theme = "cloud" ->
         [primaryPlatforms |-> <<NORMAL, ICE>>,
          specialPlatforms |-> <<MOVING, FRAGILE, DANGEROUS>>]
    [] theme = "thunder" ->
         [primaryPlatforms |-> <<NORMAL, BOUNCE>>,
          specialPlatforms |-> <<MOVING, DISAPPEARING, ICE, DANGEROUS>>]
    [] OTHER ->
         [primaryPlatforms |-> <<NORMAL, FRAGILE, DANGEROUS>>,
          specialPlatforms |-> <<DISAPPEARING, MOVING, BOUNCE, ICE, DANGEROUS>>]

\* the generator's world width, screenWidth * 1.5
GenWorldWidth == (ScreenWidth * 3 * PX) \div 2

\* LevelGenerator.calculatePlatformPosition
CalculatePlatformPosition(layerY, index, totalCount, d) ==
  LET sectionHeight == ((LayerHeightPx - 100) * PX) \div totalCount
      baseY == layerY + ((2 * index + 1) * sectionHeight) \div 2
                 + Trunc((d.ry - 500) * 3 * (sectionHeight \div 1000), 10)
      sectionWidth == GenWorldWidth \div totalCount
      sectionCenter == -(GenWorldWidth \div 2) + ((2 * index + 1) * sectionWidth) \div 2
      maxOffset == (sectionWidth * 4) \div 10
      x0 == IF totalCount = 1
              THEN Trunc((d.rx - 500) * 6 * (GenWorldWidth \div 10000), 1)
              ELSE sectionCenter + Trunc((d.rx - 500) * (maxOffset \div 1000), 1)
  IN  [x |-> Max(-(GenWorldWidth \div 2) + 50 * PX,
                 Min(GenWorldWidth \div 2 - 50 * PX, x0)),
       y |-> baseY]

\* LevelGenerator.choosePlatformType
ChoosePlatformType(config, specialChance, d) ==
  LET types == IF d.rs < specialChance * 10 THEN config.specialPlatforms
                                            ELSE config.primaryPlatforms
  IN  types[(d.rp * Len(types)) \div 1000 + 1]

\* LevelGenerator.calculatePlatformSize
CalculatePlatformSize(platformType, layerNum, d) ==
  LET baseWidth == CASE platformType = MOVING -> 100
                     [] platformType = FRAGILE -> 95
                     [] platformType = BOUNCE -> 120
                     [] platformType = ICE -> 105
                     [] platformType = DISAPPEARING -> 100
                     [] platformType = DANGEROUS -> 115
                     [] OTHER -> 110
      sizeReduction == Min(250, layerNum * 2)
  IN  [width |-> (baseWidth * PX * (1000 - sizeReduction)) \div 1000
                   + (d.rw * 20 * PX) \div 1000,
       height |-> 20 * PX]

\* the construction step of generatePlatforms and ensurePlatformAccessibility:
\* from the pool when the generator has one, else new Platform(...)
MakePlatform(w, type, x, y, width, height, layerNum) ==
  IF w.gen.usePool THEN PoolGet(w, type, x, y, width, height, layerNum)
                   ELSE CreateNewPlatform(w, type, x, y, width, height, layerNum)

\* an accessibility pass without the fallback platform
EnsureNoFallback(w, list, layerY) == [w EXCEPT !.gen.last = list]

\* LevelGenerator.ensurePlatformAccessibility: the list, with the fallback if empty
EnsurePlatformAccessibility(w, list, layerY) ==
  IF Len(list) = 0
    THEN With(MakePlatform(w, NORMAL, (ScreenWidth * PX) \div 2,
                           layerY + 300 * PX, 100 * PX, 20 * PX,
                           layerY \div (LayerHeightPx * PX)),
              LAMBDA a : [a EXCEPT !.gen.last = <<a.ret>>])
    ELSE [w EXCEPT !.gen.last = list]

\* the placement loop of generatePlatforms from index i on; draws[i + 1] is the
\* draw of platform i
RECURSIVE PlacementLoop(_, _, _, _, _, _)
PlacementLoop(w, layerNum, i, platformCount, list, draws) ==
  IF i >= platformCount THEN [w EXCEPT !.gen.last = list]
  ELSE LET difficulty == CalculateDifficulty(layerNum)
           config == ThemeConfigs(GetThemeForLayer(layerNum))
           d == draws[i + 1]
           pos == CalculatePlatformPosition(layerNum * LayerHeightPx * PX, i,
                                            platformCount, d)
           type == ChoosePlatformType(config, difficulty.specialPlatformChance, d)
           size == CalculatePlatformSize(type, layerNum, d)
           Placed(a) ==
             With([a EXCEPT !.heap[a.ret] = ApplySpecialPlatformProperties(@, difficulty)],
                  LAMBDA b : With(Append(list, a.ret),
                    LAMBDA l : PlacementLoop(b, layerNum, i + 1, platformCount, l, draws)))
       IN  With(MakePlatform(w, type, pos.x, pos.y, size.width, size.height, layerNum),
                Placed)

\* LevelGenerator.generatePlatforms: the platforms are w.gen.last
GeneratePlatforms(w, layerNum, draws) ==
  LET platformCount == CalculateDifficulty(layerNum).platformCount \div 10
  IN  With(PlacementLoop(w, layerNum, 0, platformCount, <<>>, draws),
           LAMBDA a : EnsurePlatformAccessibility(a, a.gen.last,
                                                  layerNum * LayerHeightPx * PX))

\* LevelGenerator.generateLayer: platforms in w.gen.last, the layer in the history
GenerateLayer(w, layerNum, draws) ==
  LET a == GeneratePlatforms(w, layerNum, draws)
  IN  [a EXCEPT !.gen.history = @ \cup {layerNum}, !.gen.layer = layerNum]

-----------------------------------------------------------------------------
(* AngelDescentGame (angel-descent-game.js).  Life fruits, camera, rendering    *)
(* and the tutorial overlay's own state are left out.  A handler appends what   *)
(* it does to w.events: the stages of update, landings, steps, deaths.          *)

\* canvas.height in px
CanvasHeight == 667
AheadLayersMin == 8
InitialLayersMin == 5
RestartDelaySeconds == 3

Ev(name, i) == [e |-> name, idx |-> i]
Log(w, name, i) == [w EXCEPT !.events = Append(@, Ev(name, i))]

\* Math.ceil(a / b) for b > 0
CeilDiv(a, b) == -((-a) \div b)

\* the draws of platform i of a layer under the generator's random seed
Draws ==
  << [ry |-> 500, rx |-> 500, rs |-> 0,   rp |-> 0,   rw |-> 0],
     [ry |-> 0,   rx |-> 0,   rs |-> 999, rp |-> 999, rw |-> 999],
     [ry |-> 999, rx |-> 999, rs |-> 350, rp |-> 500, rw |-> 500],
     [ry |-> 250, rx |-> 750, rs |-> 650, rp |-> 400, rw |-> 100] >>
Seeds == 0 .. (Len(Draws) - 1)
DrawsFor(seed, layerNum) ==
  [i \in 1..MaxPlatforms |-> Draws[((seed + layerNum + i) % Len(Draws)) + 1]]

\* new AngelDescentGame(canvas): the fields the handlers read
GameNew ==
  [currentState |-> "tutorial", running |-> FALSE, paused |-> FALSE,
   gameOverReason |-> "none", restartTimer |-> FALSE, hasCompletedTutorial |-> FALSE,
   currentLayer |-> 1, maxGeneratedLayer |-> 0, generationLimitPerFrame |-> 0,
   lastTime |-> 0, frames |-> 0]

\* AngelDescentGame.start: frames counts the callbacks requestAnimationFrame holds
Start(w) ==
  IF w.game.running THEN w
  ELSE [w EXCEPT !.game.running = TRUE, !.game.lastTime = w.now,
                 !.game.frames = @ + 1]

\* AngelDescentGame.stop
Stop(w) == [w EXCEPT !.game.running = FALSE]

\* AngelDescentGame.pause
Pause(w) == [w EXCEPT !.game.paused = TRUE, !.game.currentState = "paused"]

\* gameOver that sets no restart timer
GameOverNoTimer(w, reason) ==
  IF w.game.currentState = "game_over" THEN w
  ELSE Log([Stop(w) EXCEPT !.game.currentState = "game_over",
                           !.game.gameOverReason = reason], "gameOver", 0)

\* AngelDescentGame.gameOver
GameOver(w, reason) ==
  IF w.game.currentState = "game_over" THEN w
  ELSE Log([Stop(w) EXCEPT !.game.currentState = "game_over",
                           !.game.gameOverReason = reason,
                           !.game.restartTimer = TRUE], "gameOver", 0)

\* AngelDescentGame.handlePlayerDeath, the listener of the player's 'death' event
HandlePlayerDeath(w) ==
  IF w.game.currentState = "game_over" THEN w ELSE GameOver(w, "player_death")

\* the 'death' event: logged, then delivered to the listener
EmitDeath(w, death) ==
  IF death THEN HandlePlayerDeath(Log(w, "death", 0)) ELSE w

\* AngelDescentGame.gameComplete
GameComplete(w) == Pause([w EXCEPT !.game.currentState = "level_complete"])

\* the layers generateMultipleLayers / updateLevelGeneration add, from layerNum to
\* target; a challenge layer (every 20th above 20) is skipped when skip holds
RECURSIVE GenerateLayers(_, _, _, _, _, _)
GenerateLayers(w, layerNum, target, seed, skip, counted) ==
  IF layerNum > target THEN w
  ELSE LET shouldGenerate == ~(counted /\ layerNum % 20 = 0 /\ layerNum > 20 /\ skip)
           existing == \E k \in 1..Len(w.platforms) :
                         /\ w.heap[w.platforms[k]].layer = layerNum
                         /\ ~w.heap[w.platforms[k]].destroyed
           Added(g) ==
             Log([g EXCEPT !.platforms = @ \o g.gen.last,
                           !.game.generationLimitPerFrame = IF counted THEN @ + 1 ELSE @],
                 "generateLayer", layerNum)
           Marked(a) == [a EXCEPT !.game.maxGeneratedLayer = Max(@, layerNum)]
       IN  With(IF shouldGenerate /\ (~counted \/ ~existing)
                  THEN With(GenerateLayer(w, layerNum, DrawsFor(seed, layerNum)), Added)
                  ELSE w,
                LAMBDA a : With(Marked(a),
                  LAMBDA b : GenerateLayers(b, layerNum + 1, target, seed, skip, counted)))

\* AngelDescentGame.generateInitialLevels
GenerateInitialLevels(w, seed) ==
  LET initialLayerCount ==
        Max(InitialLayersMin, CeilDiv(CanvasHeight, LayerHeightPx) + 3)
      Started(a) ==
        With(CreateNewPlatform(a, NORMAL, (PlayerSpawnX2 * PX) \div 2, 200 * PX,
                               150 * PX, 20 * PX, 0),
             LAMBDA b : [b EXCEPT !.platforms = <<b.ret>> \o @])
  IN  With([w EXCEPT !.platforms = <<>>, !.game.maxGeneratedLayer = 0],
           LAMBDA o : With(GenerateLayers(o, 1, initialLayerCount, seed, FALSE, FALSE),
                           Started))

\* this.player is an object (dispose sets it to null)
PlayerNull == [null |-> TRUE]
HasPlayer(w) == "y" \in DOMAIN w.player

\* Player.reset
PlayerResetOp(pl) ==
  [pl EXCEPT !.x = (PlayerSpawnX2 * PX) \div 2, !.y = PlayerSpawnY * PX,
             !.vx = 0, !.vy = 0, !.lives = pl.maxLives,
             !.destroyed = FALSE, !.active = TRUE, !.visible = TRUE,
             !.onGround = FALSE, !.isInvulnerable = FALSE, !.invulnerabilityTime = 0,
             !.groundTime = 0, !.wasOnGroundLastFrame = FALSE,
             !.leftPressed = FALSE, !.rightPressed = FALSE]

\* the count of generated layers at which updateLevelGeneration returns at once
MaxLayersPerFrame == 3

\* AngelDescentGame.updateLevelGeneration
UpdateLevelGeneration(w, seed, skip) ==
  IF ~w.game.running \/ w.game.currentState = "game_over" THEN w
  ELSE IF w.game.generationLimitPerFrame >= MaxLayersPerFrame THEN w
  ELSE LET playerLayer == Max(1, CeilDiv(w.player.y, LayerHeightPx * PX))
           aheadLayers == Max(AheadLayersMin, CeilDiv(CanvasHeight, LayerHeightPx) * 2)
           targetLayer == Min(playerLayer + aheadLayers, MaxLayer)
       IN  [GenerateLayers(w, w.game.maxGeneratedLayer + 1, targetLayer, seed, skip, TRUE)
              EXCEPT !.game.generationLimitPerFrame = 0]

\* AngelDescentGame.shouldCleanupPlatform
ShouldCleanupPlatform(p, cameraY, cleanupDistance) ==
  \/ p.y + p.height \div 2 < cameraY - cleanupDistance
  \/ p.y - p.height \div 2 > cameraY + CanvasHeight * PX + cleanupDistance

\* one round of the removal in updatePlatforms: the platform at position i leaves
\* the list, and goes back to the pool unless it is destroyed
RemovePlatformAt(w, i) ==
  LET id == w.platforms[i]
  IN  [(IF ~w.heap[id].destroyed THEN PoolRelease(w, id) ELSE w)
         EXCEPT !.platforms = RemoveAt(@, i)]

\* the removals of updatePlatforms at the positions gone[k], gone[k + 1], ...
RECURSIVE RemovePlatformsFrom(_, _, _)
RemovePlatformsFrom(w, gone, k) ==
  IF k > Len(gone) THEN w
  ELSE With(RemovePlatformAt(w, gone[k]),
            LAMBDA b : RemovePlatformsFrom(b, gone, k + 1))

\* AngelDescentGame.updatePlatforms: the loop walks the list from its end; each
\* platform is updated, and one that is destroyed or far from the camera is
\* removed.  An update touches its own platform only and a removal never changes
\* an earlier position, so the updates are taken first and the removals after
\* them, in the order of the loop.
UpdatePlatforms(w, dt) ==
  LET n == Len(w.platforms)
      cameraY == w.player.y - (CanvasHeight * PX) \div 2
      Updated(o) ==
        [o EXCEPT !.heap = [id \in DOMAIN @ |->
                              IF id \in SeqToSet(o.platforms)
                                THEN PlatformUpdate(@[id], dt) ELSE @[id]]]
      Removed(a) ==
        LET Gone(i) ==
              LET p == a.heap[a.platforms[i]]
              IN  p.destroyed \/ ShouldCleanupPlatform(p, cameraY, CanvasHeight * 10 * PX)
        IN  With(SelectSeq([k \in 1..n |-> n + 1 - k], Gone),
                 LAMBDA gone : RemovePlatformsFrom(a, gone, 1))
  IN  With(With(w, Updated), Removed)

\* the landing of checkCollisions on the platform at position i; rnd is the
\* Math.random() of a dangerous platform's step
LandAt(w, i, rnd) ==
  LET id == w.platforms[i]
      c == CheckCollisionWithPlayer(w.heap[id], w.player)
      Stepped(r) ==
        EmitDeath(Log(Log([w EXCEPT !.heap[id] = r.p, !.player = r.pl], "land", id),
                      "step", id),
                  r.death)
  IN  With(OnPlayerStep(c.p, LandOnPlatform(w.player, c.p), rnd, w.now), Stepped)

\* AngelDescentGame.checkCollisions: the loop checks the platforms in the order of
\* the list and ends at the first one the player lands on.  A check that is not a
\* landing touches its own platform only, so the platforms before the first
\* landing are checked together.
CheckCollisions(w, rnd) ==
  LET n == Len(w.platforms)
      First(hits) == IF hits = {} THEN n + 1 ELSE CHOOSE i \in hits : \A j \in hits : i <= j
      Passed(f) ==
        [w EXCEPT !.heap = [id \in DOMAIN @ |->
                              IF \E i \in 1..(f - 1) : w.platforms[i] = id
                                THEN CheckCollisionWithPlayer(@[id], w.player).p
                                ELSE @[id]]]
      Ended(f) == With(Passed(f), LAMBDA a : IF f > n THEN a ELSE LandAt(a, f, rnd))
  IN  With(With({i \in 1..n :
                   CheckCollisionWithPlayer(w.heap[w.platforms[i]], w.player).hit},
                First),
           Ended)

\* AngelDescentGame.checkLayerProgress
CheckLayerProgress(w) ==
  LET currentLayer == Max(1, CeilDiv(w.player.y, LayerHeightPx * PX))
  IN  IF currentLayer > w.game.currentLayer
        THEN LET a == [w EXCEPT !.game.currentLayer = currentLayer]
             IN  IF currentLayer > MaxLayer THEN GameComplete(a) ELSE a
        ELSE w

\* AngelDescentGame.findNearestPlatformAbove: the y of the nearest undestroyed
\* platform above playerY, as a set with at most one element
FindNearestPlatformAbove(w, playerY) ==
  LET above == {w.heap[w.platforms[k]].y : k \in
                  {j \in 1..Len(w.platforms) :
                     /\ ~w.heap[w.platforms[j]].destroyed
                     /\ w.heap[w.platforms[j]].y < playerY}}
  IN  {y \in above : \A z \in above : z <= y}

\* a checkPlayerBounds that takes a world without a platform above the player for
\* a fall into the void at any depth
CheckPlayerBoundsShallow(w) ==
  LET playerY == w.player.y
      playerLayer == Max(1, CeilDiv(playerY, LayerHeightPx * PX))
      fallDistance == LayerHeightPx * 2 * PX
      nearest == {y \in FindNearestPlatformAbove(w, playerY) : y # 0}
  IN  IF \E y \in nearest : playerY - y > fallDistance
        THEN GameOver(Log(w, "fell_too_far", 0), "fell_too_far")
      ELSE IF nearest = {}
        THEN GameOver(Log(w, "fell_into_void", 0), "fell_into_void")
      ELSE IF playerLayer > MaxLayer THEN GameComplete(w)
      ELSE w

\* AngelDescentGame.checkPlayerBounds (a platform at y = 0 counts as none, as in
\* the code's truthiness test); a call of gameOver is logged under its reason
CheckPlayerBounds(w) ==
  LET playerY == w.player.y
      playerLayer == Max(1, CeilDiv(playerY, LayerHeightPx * PX))
      fallDistance == LayerHeightPx * 2 * PX
      nearest == {y \in FindNearestPlatformAbove(w, playerY) : y # 0}
  IN  IF \E y \in nearest : playerY - y > fallDistance
        THEN GameOver(Log(w, "fell_too_far", 0), "fell_too_far")
      ELSE IF nearest = {} /\ playerY > fallDistance
        THEN GameOver(Log(w, "fell_into_void", 0), "fell_into_void")
      ELSE IF playerLayer > MaxLayer THEN GameComplete(w)
      ELSE w

\* an update that resolves collisions before it updates the platforms
UpdateCollideFirst(w, dt, rnd, seed, skip) ==
  IF w.game.currentState = "tutorial" THEN w
  ELSE LET S1(o) == UpdateLevelGeneration(o, seed, skip)
           S2(o) == [o EXCEPT !.player = PlayerUpdate(@, dt)]
           S3(o) == CheckCollisions(o, rnd)
           S4(o) == UpdatePlatforms(o, dt)
       IN  With(With(Log(w, "updateLevelGeneration", 0), S1),
             LAMBDA s1 : With(With(Log(s1, "playerUpdate", 0), S2),
               LAMBDA s2 : With(With(Log(s2, "checkCollisions", 0), S3),
                 LAMBDA s3 : With(With(Log(s3, "updatePlatforms", 0), S4),
                   LAMBDA s4 : With(With(Log(s4, "checkLayerProgress", 0),
                                         CheckLayerProgress),
                     LAMBDA s5 : With(Log(s5, "checkPlayerBounds", 0),
                                      CheckPlayerBounds))))))

\* AngelDescentGame.update
Update(w, dt, rnd, seed, skip) ==
  IF w.game.currentState = "tutorial" THEN w
  ELSE IF ~HasPlayer(w) THEN w
  ELSE LET S1(o) == UpdateLevelGeneration(o, seed, skip)
           S2(o) == [o EXCEPT !.player = PlayerUpdate(@, dt)]
           S3(o) == UpdatePlatforms(o, dt)
           S4(o) == CheckCollisions(o, rnd)
       IN  With(With(Log(w, "updateLevelGeneration", 0), S1),
             LAMBDA s1 : With(With(Log(s1, "playerUpdate", 0), S2),
               LAMBDA s2 : With(With(Log(s2, "updatePlatforms", 0), S3),
                 LAMBDA s3 : With(With(Log(s3, "checkCollisions", 0), S4),
                   LAMBDA s4 : With(With(Log(s4, "checkLayerProgress", 0),
                                         CheckLayerProgress),
                     LAMBDA s5 : With(Log(s5, "checkPlayerBounds", 0),
                                      CheckPlayerBounds))))))

\* gameStep without the limits on deltaTime
GameStepUnclamped(w, currentTime, rnd, seed, skip) ==
  IF ~w.game.running THEN w
  ELSE LET time == IF currentTime = 0 THEN w.now ELSE currentTime
           lastTime == IF w.game.lastTime = 0 THEN time ELSE w.game.lastTime
           dt == time - lastTime
           Stepped(a) == IF ~a.game.paused
                           THEN Update(Log(a, "update", dt), dt, rnd, seed, skip)
                           ELSE a
           Again(b) == IF b.game.running THEN [b EXCEPT !.game.frames = @ + 1] ELSE b
       IN  With(With(Log([w EXCEPT !.game.lastTime = time], "delta", time - lastTime),
                     Stepped),
                Again)

\* AngelDescentGame.gameStep, called back at time w.now of Date.now() with the
\* argument currentTime (0 when the callback is given none); the events "delta"
\* and "update" carry now - lastTime and the deltaTime update is called with
GameStep(w, currentTime, rnd, seed, skip) ==
  IF ~w.game.running THEN w
  ELSE LET time == IF currentTime = 0 THEN w.now ELSE currentTime
           lastTime == IF w.game.lastTime = 0 THEN time ELSE w.game.lastTime
           dt == Max(0, Min(time - lastTime, TicksPerSecond \div 30))
           Stepped(a) == IF ~a.game.paused
                           THEN Update(Log(a, "update", dt), dt, rnd, seed, skip)
                           ELSE a
           Again(b) == IF b.game.running THEN [b EXCEPT !.game.frames = @ + 1] ELSE b
       IN  With(With(Log([w EXCEPT !.game.lastTime = time], "delta", time - lastTime),
                     Stepped),
                Again)

\* AngelDescentGame.restart
Restart(w, seed) ==
  LET a == [Stop(w) EXCEPT !.game.restartTimer = FALSE,
                           !.game.currentLayer = 1,
                           !.player = IF HasPlayer(w)
                                        THEN PlayerResetOp(PlayerResetOp(@)) ELSE @,
                           !.platforms = <<>>,
                           !.game.maxGeneratedLayer = 0,
                           !.gen.history = {}]
      Levels(o) == GenerateInitialLevels(o, seed)
      Stated(b) == [b EXCEPT !.game.currentState =
                      IF b.game.hasCompletedTutorial THEN "playing" ELSE "tutorial"]
  IN  With(With(With(a, Levels), Stated), Start)

\* AngelDescentGame.handleTouch; done: the tutorial overlay reports it is finished
HandleTouch(w, left, done, seed) ==
  IF ~w.game.running THEN w
  ELSE IF w.game.currentState = "level_complete" THEN Restart(w, seed)
  ELSE IF w.game.currentState = "tutorial"
    THEN IF done
           THEN [w EXCEPT !.game.hasCompletedTutorial = TRUE,
                          !.game.currentState = "playing",
                          !.player = IF HasPlayer(w) THEN SetInput(@, FALSE, FALSE) ELSE @]
           ELSE w
  ELSE IF w.game.paused THEN w
  ELSE [w EXCEPT !.player = IF HasPlayer(w) THEN SetInput(@, left, ~left) ELSE @]

\* AngelDescentGame.handleTouchEnd
HandleTouchEnd(w) ==
  [w EXCEPT !.player = IF HasPlayer(w) THEN SetInput(@, FALSE, FALSE) ELSE @]

\* AngelDescentGame.initialize, after the constructor: game data, player, initial
\* levels, state, start
Initialize(w, seed) ==
  LET a == [w EXCEPT !.game.currentLayer = 1, !.player = PlayerNew]
      Levels(o) == GenerateInitialLevels(o, seed)
      Stated(b) == [b EXCEPT !.game.currentState =
                      IF b.game.hasCompletedTutorial THEN "playing" ELSE "tutorial"]
  IN  With(With(With(a, Levels), Stated), Start)

-----------------------------------------------------------------------------
(* Values of the variables a specification does not use *)

NoPools == [t \in PlatformTypeSet |-> <<>>]
NoStats == [totalCreated |-> 0, totalReused |-> 0, totalReleased |-> 0, currentActive |-> 0]
NoGame == [GameNew EXCEPT !.currentState = "none"]
NoGen == [usePool |-> TRUE, seed |-> 0, layer |-> 0, last |-> <<>>, history |-> {}]
NoLast == [op |-> "none", idx |-> 0, reused |-> FALSE]
NoContact == [idx |-> 0, steps |-> 0]
\* the clock of the frames: the deltaTime of the last call of update (-1: none),
\* now - lastTime of the last frame, and the frames processed since start()
NoClock == [dt |-> -1, raw |-> 0, sinceStart |-> 0]
\* the last call of the pool's API as the pool saw it on entry: the type asked of
\* get or the type of the object given to release, whether that object was marked
\* pooled, and the length of the free list of that type
NoCall == [type |-> "none", pooled |-> FALSE, length |-> 0]
\* the simulated time (the sum of update's deltaTime) since the last takeDamage
\* that took a life and since the last freeze (-1: none yet), and the frames of
\* 1/60 s so far
NoSince == [hit |-> -1, freeze |-> -1, shorts |-> 0]
NoHist == [stepCalls |-> 0, sinceStep |-> 0, elapsed |-> 0, deaths |-> 0,
           last |-> NoLast, dirty |-> {},
           frames |-> 0, touches |-> 0, restarts |-> 0,
           kind |-> "none", stages |-> <<>>, landed |-> 0, contact |-> NoContact,
           released |-> {}, calc |-> <<>>, generated |-> 0, clock |-> NoClock,
           fall |-> "none", call |-> NoCall, since |-> NoSince, steps |-> 0,
           given |-> 0]

\* Date.now() at start: far above every cooldown, as the epoch time is
NowStart == 4 * TicksPerSecond

\* frame times: 0, 1/60 s and the clamp 1/30 s
DtChoices == {0, TicksPerSecond \div 60, TicksPerSecond \div 30}
\* Math.random(), per-mille
RandChoices == {0, 250, 450, 999}

-----------------------------------------------------------------------------
(* SpecPlatform: one platform, built as generatePlatforms builds it without a   *)
(* pool, driven through its contract onPlayerStep / update.                     *)

MaxStepCalls == 4
MaxElapsed == 380
LayerSamples == {1, 20, 40}

InitPlatform ==
  /\ \E type \in PlatformTypeSet, layerNum \in LayerSamples :
       heap = <<ApplySpecialPlatformProperties(
                  PlatformNew(0, layerNum * LayerHeightPx * PX, 110 * PX, 20 * PX,
                              type, layerNum),
                  CalculateDifficulty(layerNum))>>
  /\ player = PlayerNew
  /\ now = NowStart
  /\ hist = NoHist
  /\ pools = NoPools /\ stats = NoStats /\ platforms = <<1>>
  /\ game = NoGame /\ gen = NoGen

\* platform.onPlayerStep(player)
PStep ==
  /\ hist.stepCalls < MaxStepCalls
  /\ \E rnd \in RandChoices :
       LET r == OnPlayerStep(heap[1], player, rnd, now)
       IN  /\ heap' = <<r.p>>
           /\ player' = r.pl
           /\ hist' = [hist EXCEPT !.stepCalls = @ + 1,
                                   !.deaths = @ + (IF r.death THEN 1 ELSE 0)]
  /\ UNCHANGED <<pools, stats, platforms, game, gen, now>>

\* platform.update(deltaTime)
PUpdate ==
  /\ hist.elapsed < MaxElapsed
  /\ \E dt \in DtChoices :
       /\ heap' = <<PlatformUpdate(heap[1], dt)>>
       /\ now' = now + dt
       /\ hist' = [hist EXCEPT !.elapsed = @ + dt,
                               !.sinceStep = IF heap[1].activated THEN @ + dt ELSE @]
  /\ UNCHANGED <<pools, stats, platforms, player, game, gen>>

NextPlatform == PStep \/ PUpdate

SpecPlatform == InitPlatform /\ [][NextPlatform]_vars

\* C4: a Fragile platform with durability d = maxSteps is still active (not destroyed,
\* solid) after fewer than d calls of onPlayerStep, in particular after d-1, and is
\* destroyed once d calls were made.
FragileBreaksAtDurability ==
  heap[1].platformType = FRAGILE =>
    /\ heap[1].maxSteps >= 1
    /\ hist.stepCalls < heap[1].maxSteps => ~heap[1].destroyed /\ heap[1].solid
    /\ hist.stepCalls >= heap[1].maxSteps => heap[1].destroyed

FragileWitnessBroken ==
  /\ heap[1].platformType = FRAGILE
  /\ heap[1].maxSteps = 3
  /\ hist.stepCalls = 3
  /\ heap[1].destroyed

\* C5: a Disappearing platform never stepped on is never destroyed; once stepped on
\* it stays solid while the update time accumulated since the first step is below
\* disappearDelay, its remaining countdown is disappearDelay minus that time whatever
\* further steps are made, and it is destroyed once that time reaches disappearDelay.
DisappearingCountdown ==
  heap[1].platformType = DISAPPEARING =>
    /\ ~heap[1].activated => ~heap[1].destroyed /\ heap[1].disappearTimer = 0
    /\ heap[1].activated /\ hist.sinceStep < heap[1].disappearDelay =>
         /\ ~heap[1].destroyed /\ heap[1].solid
         /\ heap[1].disappearTimer = heap[1].disappearDelay - hist.sinceStep
    /\ heap[1].activated /\ hist.sinceStep >= heap[1].disappearDelay =>
         heap[1].destroyed

DisappearingWitnessGone ==
  /\ heap[1].platformType = DISAPPEARING
  /\ heap[1].destroyed
  /\ hist.stepCalls >= 2
  /\ hist.sinceStep >= heap[1].disappearDelay
  /\ hist.elapsed > hist.sinceStep

-----------------------------------------------------------------------------
(* SpecPool: the pool's API (get, release, cleanup) driven by a caller that     *)
(* holds the objects it got (platforms), steps on them, updates them and gives  *)
(* them the generator's special properties.                                     *)

MaxHeld == 2
MaxPoolOps == 5
PoolDtChoices == {TicksPerSecond \div 2}
PoolLayers == {20}

\* new PlatformPool(): empty free lists, zero statistics, then preWarmPools
PoolNew(t) ==
  PreWarmPools([heap |-> <<>>, pools |-> NoPools, stats |-> NoStats, platforms |-> <<>>,
                player |-> PlayerNew, game |-> NoGame, gen |-> NoGen, now |-> t,
                ret |-> 0, events |-> <<>>])

InitPool ==
  /\ heap = PoolNew(NowStart).heap
  /\ pools = PoolNew(NowStart).pools
  /\ stats = NoStats
  /\ platforms = <<>>
  /\ player = PlayerNew
  /\ game = NoGame /\ gen = NoGen
  /\ now = NowStart
  /\ hist = NoHist

\* platformPool.get(type, x, y, width, height, layer); the caller keeps the object
PoolGetAct ==
  /\ Len(platforms) < MaxHeld
  /\ hist.elapsed < MaxPoolOps
  /\ \E type \in PlatformTypeSet, layerNum \in PoolLayers :
       LET w == PoolGet(World, type, 100 * PX, layerNum * LayerHeightPx * PX,
                        100 * PX, 20 * PX, layerNum)
       IN  /\ Commit([w EXCEPT !.platforms = Append(@, w.ret)])
           /\ hist' = [hist EXCEPT !.elapsed = @ + 1,
                         !.last = [op |-> "get", idx |-> w.ret,
                                   reused |-> Len(pools[type]) > 0]]
  /\ UNCHANGED now

\* platformPool.release(platform); the caller drops the object
PoolReleaseAct ==
  /\ hist.elapsed < MaxPoolOps
  /\ \E k \in 1..Len(platforms) :
       LET w == PoolRelease(World, platforms[k])
       IN  /\ Commit([w EXCEPT !.platforms = RemoveAt(@, k)])
           /\ hist' = [hist EXCEPT !.elapsed = @ + 1,
                         !.last = [op |-> "release", idx |-> platforms[k],
                                             reused |-> FALSE]]
  /\ UNCHANGED now

\* platformPool.cleanup()
PoolCleanupAct ==
  /\ hist.elapsed < MaxPoolOps
  /\ Commit(With(World, PoolCleanup))
  /\ hist' = [hist EXCEPT !.elapsed = @ + 1, !.last = NoLast]
  /\ UNCHANGED now

\* the caller steps on an object it holds
HeldStep ==
  /\ hist.elapsed < MaxPoolOps
  /\ \E k \in 1..Len(platforms), rnd \in RandChoices :
       LET r == OnPlayerStep(heap[platforms[k]], player, rnd, now)
       IN  /\ heap' = [heap EXCEPT ![platforms[k]] = r.p]
           /\ player' = r.pl
           /\ hist' = [hist EXCEPT !.elapsed = @ + 1, !.last = NoLast,
                                   !.dirty = @ \cup {platforms[k]}]
  /\ UNCHANGED <<pools, stats, platforms, game, gen, now>>

\* the caller updates an object it holds
HeldUpdate ==
  /\ hist.elapsed < MaxPoolOps
  /\ \E k \in 1..Len(platforms), dt \in PoolDtChoices :
       /\ heap' = [heap EXCEPT ![platforms[k]] = PlatformUpdate(@, dt)]
       /\ now' = now + dt
       /\ hist' = [hist EXCEPT !.elapsed = @ + 1, !.last = NoLast,
                               !.dirty = @ \cup {platforms[k]}]
  /\ UNCHANGED <<pools, stats, platforms, player, game, gen>>

\* the generator's applySpecialPlatformProperties on an object the caller holds
HeldApplySpecial ==
  /\ hist.elapsed < MaxPoolOps
  /\ \E k \in 1..Len(platforms) :
       /\ heap' = [heap EXCEPT ![platforms[k]] =
                     ApplySpecialPlatformProperties(@, CalculateDifficulty(@.layer))]
       /\ hist' = [hist EXCEPT !.elapsed = @ + 1, !.last = NoLast,
                               !.dirty = @ \cup {platforms[k]}]
  /\ UNCHANGED <<pools, stats, platforms, player, game, gen, now>>

NextPool ==
  \/ PoolGetAct \/ PoolReleaseAct \/ PoolCleanupAct
  \/ HeldStep \/ HeldUpdate \/ HeldApplySpecial

SpecPool == InitPool /\ [][NextPool]_vars

-----------------------------------------------------------------------------
(* SpecCalls: the pool's API driven by a caller that keeps every reference it   *)
(* was handed, also after releasing it, and that asks for types the pool has no *)
(* free list for. Time passes between the calls.                                *)

MaxRefs == 3
MaxCalls == 5
TickSeconds == 15
FillCount == 51
UnknownType == "crystal"
CallTypes == {NORMAL, ICE, UnknownType}
CallLayer == 20

\* the caller's get: the arguments the generator passes for a platform of a layer
CallGet(w, type) ==
  PoolGet(w, type, 100 * PX, CallLayer * LayerHeightPx * PX, 100 * PX, 20 * PX,
          CallLayer)

\* n >= 1 gets of normal platforms, the caller keeping the objects (the first
\* half of the calls, then the rest)
RECURSIVE GetMany(_, _)
GetMany(w, n) ==
  IF n = 1
    THEN With(CallGet(w, NORMAL), LAMBDA b : [b EXCEPT !.platforms = Append(@, b.ret)])
    ELSE With(GetMany(w, n \div 2), LAMBDA a : GetMany(a, n - n \div 2))

\* the caller releases the first n >= 1 objects it keeps and forgets them
RECURSIVE ReleaseMany(_, _)
ReleaseMany(w, n) ==
  IF n = 1
    THEN [PoolRelease(w, w.platforms[1]) EXCEPT !.platforms = Tail(w.platforms)]
    ELSE With(ReleaseMany(w, n \div 2), LAMBDA a : ReleaseMany(a, n - n \div 2))

\* a pool after FillCount gets of normal platforms and the release of all but two
FilledPool == ReleaseMany(GetMany(PoolNew(NowStart), FillCount), FillCount - 2)

InitCalls ==
  /\ \E w \in {PoolNew(NowStart), FilledPool} :
       /\ heap = w.heap /\ pools = w.pools /\ stats = w.stats
       /\ platforms = w.platforms
  /\ player = PlayerNew
  /\ game = NoGame /\ gen = NoGen
  /\ now = NowStart
  /\ hist = NoHist

\* platformPool.get(type, ...): the caller keeps the object
CallGetAct ==
  /\ Len(platforms) < MaxRefs
  /\ hist.elapsed < MaxCalls
  /\ \E type \in CallTypes :
       \E w \in {CallGet(World, type)} :
         /\ Commit([w EXCEPT !.platforms = IF w.ret \in SeqToSet(@) THEN @
                                           ELSE Append(@, w.ret)])
         /\ hist' = [hist EXCEPT !.elapsed = @ + 1,
                       !.last = [op |-> "get", idx |-> w.ret,
                                 reused |-> w.ret <= Len(heap)],
                       !.call = [type |-> type, pooled |-> FALSE,
                                 length |-> IF type \in DOMAIN pools
                                              THEN Len(pools[type]) ELSE 0]]
  /\ UNCHANGED now

\* platformPool.release(platform) on any object the caller ever got
CallReleaseAct ==
  /\ hist.elapsed < MaxCalls
  /\ \E k \in 1..Len(platforms) :
       LET p == heap[platforms[k]]
       IN  /\ Commit(PoolRelease(World, platforms[k]))
           /\ hist' = [hist EXCEPT !.elapsed = @ + 1,
                         !.last = [op |-> "release", idx |-> platforms[k],
                                   reused |-> FALSE],
                         !.call = [type |-> p.platformType, pooled |-> p.pooled,
                                   length |-> IF p.platformType \in DOMAIN pools
                                                THEN Len(pools[p.platformType])
                                                ELSE 0]]
  /\ UNCHANGED now

\* platformPool.cleanup()
CallCleanupAct ==
  /\ hist.elapsed < MaxCalls
  /\ Commit(With(World, PoolCleanup))
  /\ hist' = [hist EXCEPT !.elapsed = @ + 1,
                !.last = [op |-> "cleanup", idx |-> 0, reused |-> FALSE],
                !.call = [type |-> NORMAL, pooled |-> FALSE,
                          length |-> Len(pools[NORMAL])]]
  /\ UNCHANGED now

\* time passes between two calls
CallTickAct ==
  /\ hist.elapsed < MaxCalls
  /\ now' = now + TickSeconds * TicksPerSecond
  /\ hist' = [hist EXCEPT !.elapsed = @ + 1, !.last = NoLast, !.call = NoCall]
  /\ UNCHANGED <<heap, pools, stats, platforms, player, game, gen>>

NextCalls == CallGetAct \/ CallReleaseAct \/ CallCleanupAct \/ CallTickAct

SpecCalls == InitCalls /\ [][NextCalls]_vars

\* the positions of the free lists
FreePositions ==
  UNION {{<<t, k>> : k \in 1..Len(pools[t])} : t \in PlatformTypeSet}

\* the number of positions at which the free lists hold the object i
Occurrences(i) == Cardinality({q \in FreePositions : pools[q[1]][q[2]] = i})

\* release of an object that is marked pooled changes nothing
ReleasePooledNoop ==
  (hist'.last.op = "release" /\ heap[hist'.last.idx].pooled)
    => /\ pools' = pools /\ heap' = heap /\ stats' = stats

\* no object is at two positions of the free lists
FreeListsDistinct ==
  Cardinality({pools[q[1]][q[2]] : q \in FreePositions}) = Cardinality(FreePositions)

\* C15: release of a platform that is already pooled leaves the free lists, the
\* platform's fields and the usage counters unchanged, and after any sequence of
\* get and release calls no free list holds the same object twice.
ReleaseIdempotent == [][ReleasePooledNoop]_vars /\ []FreeListsDistinct

ReleaseIdempotentWitness ==
  /\ hist.last.op = "release"
  /\ hist.call.pooled
  /\ Occurrences(hist.last.idx) = 1
  /\ stats.totalReleased >= 1

\* no free list is longer than maxSize
PoolBounded == \A t \in PlatformTypeSet : Len(pools[t]) <= PoolMaxSize

\* release of an active platform whose free list is full leaves every free list as
\* it was, and the platform on none of them
ReleaseAtCapacityDiscards ==
  (/\ hist'.last.op = "release"
   /\ ~heap[hist'.last.idx].pooled
   /\ heap[hist'.last.idx].platformType \in PlatformTypeSet
   /\ Len(pools[heap[hist'.last.idx].platformType]) >= PoolMaxSize)
    => /\ pools' = pools
       /\ \A t \in PlatformTypeSet : hist'.last.idx \notin SeqToSet(pools'[t])

\* C16: no free list ever holds more than maxSize (50) platforms; a release while
\* the list of the platform's type is at capacity discards the platform and leaves
\* the list unchanged.
PoolCapacity == [][ReleaseAtCapacityDiscards]_vars /\ []PoolBounded

PoolCapacityWitness ==
  /\ hist.last.op = "release"
  /\ ~hist.call.pooled
  /\ hist.call.length = PoolMaxSize
  /\ Len(pools[hist.call.type]) = PoolMaxSize
  /\ Occurrences(hist.last.idx) = 0

\* get of a type without a free list hands out a newly constructed platform and
\* changes neither the free lists nor the counters
GetUnknownFresh ==
  (hist'.last.op = "get" /\ hist'.call.type \notin PlatformTypeSet)
    => /\ pools' = pools /\ stats' = stats
       /\ hist'.last.idx = Len(heap) + 1
       /\ heap' = Append(heap, PlatformNew(100 * PX, CallLayer * LayerHeightPx * PX,
                                           100 * PX, 20 * PX, hist'.call.type,
                                           CallLayer))

\* release of a platform of a type without a free list changes no free list
ReleaseUnknownNoop ==
  (hist'.last.op = "release"
     /\ heap[hist'.last.idx].platformType \notin PlatformTypeSet)
    => pools' = pools

\* C17: get for a type the pool has no free list for returns a freshly constructed
\* platform and leaves the free lists and the counters unchanged; a later release
\* of that platform changes no free list.
UnknownTypeOutsidePool == [][GetUnknownFresh /\ ReleaseUnknownNoop]_vars

UnknownTypeWitness ==
  /\ hist.last.op = "release"
  /\ hist.call.type = UnknownType
  /\ ~hist.call.pooled
  /\ heap[hist.last.idx].platformType = UnknownType
  /\ Occurrences(hist.last.idx) = 0
  /\ Len(heap) > Len(PoolNew(NowStart).heap)

\* the object i has been idle for more than maxIdleTime
Idle(i) == now - heap[i].lastUsedTime > MaxIdleSeconds * TicksPerSecond

\* cleanup takes from a free list longer than the threshold the idle objects and
\* nothing else, keeps the order of the rest, and leaves the other lists, every
\* object and the counters as they were
CleanupEvictsIdle ==
  hist'.last.op = "cleanup"
    => /\ heap' = heap /\ stats' = stats /\ platforms' = platforms
       /\ \A t \in PlatformTypeSet :
            LET Kept(i) == ~Idle(i)
            IN  pools'[t] = IF Len(pools[t]) > CleanupThreshold
                              THEN SelectSeq(pools[t], Kept)
                              ELSE pools[t]

\* C18: cleanup() evicts only entries idle for more than maxIdleTime (30 s) and
\* only from free lists longer than cleanupThreshold (20); lists at or below the
\* threshold, entries idle for less, active platforms and the usage counters are
\* unchanged.
CleanupOnlyIdleAboveThreshold == [][CleanupEvictsIdle]_vars

CleanupWitness ==
  /\ hist.last.op = "cleanup"
  /\ Len(pools[NORMAL]) < hist.call.length
  /\ Len(pools[NORMAL]) > 0
  /\ Len(pools[ICE]) > 0
  /\ \A i \in SeqToSet(pools[ICE]) : Idle(i)
  /\ \E k \in 1..Len(platforms) : ~heap[platforms[k]].pooled

-----------------------------------------------------------------------------
(* The game's actions: frame callbacks, touches, restarts.                      *)

StageNames ==
  {"updateLevelGeneration", "playerUpdate", "updatePlatforms",
   "checkCollisions", "checkLayerProgress", "checkPlayerBounds"}

IsStage(ev) == ev.e \in StageNames
IsLand(ev) == ev.e = "land"
IsStep(ev) == ev.e = "step"
IsDeath(ev) == ev.e = "death"
IsGenerate(ev) == ev.e = "generateLayer"
IsUpdate(ev) == ev.e = "update"
IsFall(ev) == ev.e \in {"fell_too_far", "fell_into_void"}
IsDelta(ev) == ev.e = "delta"

\* the names of the events a predicate selects
Names(evs) == [i \in 1..Len(evs) |-> evs[i].e]

\* the player's foot box touches the platform p of the active list: it is within
\* the platform's visual width, not above its top, not below its bottom, and the
\* centres are at most 50 px apart vertically
InContact(p, pl) ==
  LET visualHalf == (p.width * 14) \div 20
  IN  /\ p.solid /\ ~p.destroyed /\ ~p.pooled
      /\ pl.x + FootBoxX + FootBoxWidth * PX > p.x - visualHalf
      /\ pl.x + FootBoxX < p.x + visualHalf
      /\ pl.y + FootBoxY + FootBoxHeight * PX >= p.y - p.height \div 2
      /\ pl.y + FootBoxY < p.y + p.height \div 2
      /\ Abs(pl.y - p.y) <= ContactResetPx * PX

\* the history after a frame that left world w
HistAfterFrame(w, kind) ==
  LET lands == SelectSeq(w.events, IsLand)
      falls == SelectSeq(w.events, IsFall)
      landedIdx == IF lands = <<>> THEN 0 ELSE lands[1].idx
      c1 == IF landedIdx = 0 THEN hist.contact
            ELSE IF hist.contact.idx = landedIdx
              THEN [idx |-> landedIdx, steps |-> hist.contact.steps + 1]
            ELSE [idx |-> landedIdx, steps |-> 1]
      c2 == IF c1.idx # 0 /\ ~InContact(w.heap[c1.idx], w.player) THEN NoContact ELSE c1
  IN  [hist EXCEPT !.frames = @ + 1,
                   !.kind = kind,
                   !.stages = Names(SelectSeq(w.events, IsStage)),
                   !.landed = landedIdx,
                   !.contact = c2,
                   !.deaths = @ + Len(SelectSeq(w.events, IsDeath)),
                   !.released = @ \cup {i \in 1..Len(heap) :
                                          w.heap[i].pooled /\ ~heap[i].pooled},
                   !.generated = Len(SelectSeq(w.events, IsGenerate)),
                   !.steps = Len(SelectSeq(w.events, IsStep)),
                   !.fall = IF falls = <<>> THEN "none" ELSE falls[1].e,
                   !.last = [op |-> "gameStep", idx |-> 0, reused |-> FALSE]]

\* the history after a frame, with the frame's clock
HistAfterTimedFrame(w, kind) ==
  LET updates == SelectSeq(w.events, IsUpdate)
      deltas == SelectSeq(w.events, IsDelta)
  IN  [HistAfterFrame(w, kind) EXCEPT
         !.clock = [dt |-> IF updates = <<>> THEN -1 ELSE updates[1].idx,
                    raw |-> IF deltas = <<>> THEN 0 ELSE deltas[1].idx,
                    sinceStart |-> IF deltas = <<>> THEN @.sinceStart
                                   ELSE @.sinceStart + 1]]

\* the argument a frame callback is given e ticks after the last: none, the time
\* of Date.now(), the time since the page was loaded, or a time before lastTime
StampKinds == {"none", "date", "load", "back"}
PageLoad == NowStart - TicksPerSecond \div 10
Stamp(kind, e) ==
  CASE kind = "none" -> 0
    [] kind = "date" -> now + e
    [] kind = "load" -> now + e - PageLoad
    [] kind = "back" -> Max(1, game.lastTime - TicksPerSecond \div 60)

\* a frame callback of requestAnimationFrame runs gameStep, e ticks after the last;
\* timed: the history keeps the frame's clock
FrameAct(maxFrames, times, rnds, stamps, timed) ==
  /\ game.frames > 0
  /\ hist.frames < maxFrames
  /\ \E e \in times, rnd \in rnds, stamp \in stamps :
       LET Stepped(o) == GameStep(o, Stamp(stamp, e), rnd, gen.seed, gen.seed % 2 = 1)
           w == With([World EXCEPT !.now = now + e, !.game.frames = @ - 1], Stepped)
           kind == IF ~game.running THEN "stopped"
                   ELSE IF game.paused THEN "paused"
                   ELSE IF game.currentState = "tutorial" THEN "tutorial"
                   ELSE "play"
       IN  \E v \in {w} :
             /\ Commit(v)
             /\ now' = now + e
             /\ hist' = IF timed THEN HistAfterTimedFrame(v, kind)
                        ELSE HistAfterFrame(v, kind)

\* a frame callback that is given no argument
GameStepAct(maxFrames, times, rnds) ==
  FrameAct(maxFrames, times, rnds, {"none"}, FALSE)

\* a touch start reaches handleTouch
HandleTouchAct(maxTouches) ==
  /\ hist.touches < maxTouches
  /\ \E left \in BOOLEAN, done \in BOOLEAN,
        seed \in IF game.running /\ game.currentState = "level_complete"
                   THEN Seeds ELSE {gen.seed} :
       LET Touched(o) == HandleTouch(o, left, done, seed)
       IN  /\ Commit(With([World EXCEPT !.gen.seed = seed], Touched))
           /\ hist' = [hist EXCEPT !.touches = @ + 1,
                                   !.last = [op |-> "touch", idx |-> 0, reused |-> FALSE]]
  /\ UNCHANGED now

\* a touch end or cancel reaches handleTouchEnd
HandleTouchEndAct(maxTouches) ==
  /\ hist.touches < maxTouches
  /\ Commit(With(World, HandleTouchEnd))
  /\ hist' = [hist EXCEPT !.touches = @ + 1,
                          !.last = [op |-> "touchEnd", idx |-> 0, reused |-> FALSE]]
  /\ UNCHANGED now

-----------------------------------------------------------------------------
(* A moment of play: the player falls toward a platform of layer L that the     *)
(* generator made from the pool, a Normal platform is above it, and possibly    *)
(* another one far above, at the edge of the cleanup distance.  The pool's free *)
(* lists are empty (restarts drop the active platforms without releasing them), *)
(* and the heap holds these platforms only.                                     *)

StepRand == {0, 999}
LandingGap == 190 * PX

ThemeTypes(layerNum) ==
  SeqToSet(ThemeConfigs(GetThemeForLayer(layerNum)).primaryPlatforms)
    \cup SeqToSet(ThemeConfigs(GetThemeForLayer(layerNum)).specialPlatforms)

\* a pool whose pre-warmed objects were all handed out and dropped
DrainedPool(t) ==
  [heap |-> <<>>, pools |-> NoPools,
   stats |-> [NoStats EXCEPT !.totalReused = PreWarmBefore(Len(PLATFORM_TYPES) + 1),
                             !.currentActive = PreWarmBefore(Len(PLATFORM_TYPES) + 1)],
   platforms |-> <<>>, player |-> PlayerNew, game |-> NoGame, gen |-> NoGen,
   now |-> t, ret |-> 0, events |-> <<>>]

\* the y of the platform the player falls toward: the middle of a layer, and for
\* the last layer the highest place the generator gives a platform
LandingY(layerNum) ==
  layerNum * LayerHeightPx * PX + (IF layerNum = MaxLayer THEN 58 * PX ELSE 250 * PX)

\* the world with the platforms in the active list: the landing platform, the
\* Normal one gap above it and, unless farGap is 0, the Normal one farGap above it
LandingWorld(type, layerNum, gap, farGap) ==
  LET difficulty == CalculateDifficulty(layerNum)
      d == Draws[1]
      layerOf(y) == y \div (LayerHeightPx * PX)
      farY == LandingY(layerNum) - farGap
      upperY == LandingY(layerNum) - gap
      Far(o) == IF farGap = 0 THEN o
                ELSE PoolGet(o, NORMAL, 0, farY,
                             CalculatePlatformSize(NORMAL, layerOf(farY), d).width,
                             20 * PX, layerOf(farY))
      Upper(f) == PoolGet(f, NORMAL, 0, upperY,
                          CalculatePlatformSize(NORMAL, layerOf(upperY), d).width,
                          20 * PX, layerOf(upperY))
      Landing(a) == PoolGet(a, type, 0, LandingY(layerNum),
                            CalculatePlatformSize(type, layerNum, d).width, 20 * PX,
                            layerNum)
      Listed(b) ==
        [b EXCEPT !.heap[b.ret] = ApplySpecialPlatformProperties(@, difficulty),
                  !.platforms = [k \in 1..Len(b.heap) |-> k]]
  IN  With(With(With(With(DrainedPool(NowStart), Far), Upper), Landing), Listed)

\* the player is h above the landing position, falling at vy
Moment(layerNum, type, gap, farGap, vy, h, lives) ==
  LET y == LandingY(layerNum) - 10 * PX - (PlayerHeight * PX) \div 2 - h
      playerLayer == Max(1, CeilDiv(y, LayerHeightPx * PX))
      generated == Min(playerLayer + AheadLayersMin, MaxLayer)
  IN  \E w \in {LandingWorld(type, layerNum, gap, farGap)} :
      /\ heap = w.heap /\ pools = w.pools /\ stats = w.stats
      /\ platforms = w.platforms
      /\ player = [PlayerNew EXCEPT !.x = 0, !.y = y, !.vy = vy, !.lives = lives]
      /\ game = [GameNew EXCEPT !.currentState = "playing", !.running = TRUE,
                                !.hasCompletedTutorial = TRUE,
                                !.currentLayer = playerLayer,
                                !.maxGeneratedLayer = generated,
                                !.lastTime = NowStart, !.frames = 1]
      /\ gen = [NoGen EXCEPT !.history = 1 .. generated]
      /\ now = NowStart
      /\ hist = [NoHist EXCEPT !.clock.sinceStart = 1]

-----------------------------------------------------------------------------
(* SpecLanding: frames and touches around one landing.                          *)

MaxLandingFrames == 5
MaxLandingTouches == 1
LandingLayers == {10, 80}
FrameTimes == {0, TicksPerSecond \div 60, TicksPerSecond \div 30, TicksPerSecond \div 15}
FallSpeeds == {300 * VelScale, MaxFallSpeed * VelScale}
FallHeights == {2 * PX, 12 * PX}

InitLanding ==
  \E layerNum \in LandingLayers :
    \E type \in ThemeTypes(layerNum), vy \in FallSpeeds, h \in FallHeights,
       lives \in 1..PlayerMaxLives :
      /\ type # DANGEROUS => lives = PlayerMaxLives
      /\ Moment(layerNum, type, LandingGap, 0, vy, h, lives)

NextLanding ==
  \/ GameStepAct(MaxLandingFrames, FrameTimes, StepRand)
  \/ HandleTouchAct(MaxLandingTouches)
  \/ HandleTouchEndAct(MaxLandingTouches)

SpecLanding == InitLanding /\ [][NextLanding]_vars

\* C7: in the frame that confirms a landing, a Bounce platform leaves the player
\* with vertical velocity -600 px/s (400 * 1.5 upward) and not on the ground; a
\* platform of any other type leaves it with vertical velocity 0 and on the ground.
BounceOrRest ==
  hist.landed # 0 =>
    IF heap[hist.landed].platformType = BOUNCE
      THEN player.vy = -(600 * VelScale) /\ ~player.onGround
      ELSE player.vy = 0 /\ player.onGround

BounceWitness ==
  /\ hist.landed # 0
  /\ heap[hist.landed].platformType = BOUNCE
  /\ player.vy = -(600 * VelScale)

\* C2: while the player stays in contact with one platform - within its width,
\* touching it, never more than 50 px from it vertically - onPlayerStep is invoked
\* on that platform at most once.
LandingOnce == hist.contact.steps <= 1

\* the frame ending in the primed state confirmed a landing on the object id
LandedOn(id) == hist'.last.op = "gameStep" /\ hist'.landed = id

\* the frame stepped on the landed platform once and on no other platform, and no
\* other platform confirmed a contact
SteppedOnce(id) ==
  /\ hist'.steps = 1
  /\ heap'[id].stepCount = heap[id].stepCount + 1
  /\ heap'[id].lastContactedPlayer /\ ~heap[id].lastContactedPlayer
  /\ \A j \in 1..Len(heap) :
       j # id => /\ heap'[j].stepCount <= heap[j].stepCount
                 /\ heap'[j].lastContactedPlayer => heap[j].lastContactedPlayer

\* the player rests on the platform's top face, and on a platform that is not a
\* Bounce platform its vertical velocity is 0
RestsOnTop(id) ==
  /\ player'.y + player'.height \div 2 = heap'[id].y - heap'[id].height \div 2
  /\ heap'[id].platformType # BOUNCE => player'.vy = 0

RemovedAreReleased ==
  [][hist'.last.op = "gameStep"
       => \A id \in SeqToSet(platforms) \ SeqToSet(platforms') :
            \/ /\ heap'[id].pooled /\ ~heap'[id].destroyed
               /\ heap'[id].stepCount = 0
               /\ id \in SeqToSet(pools'[heap[id].platformType])
            \/ Len(pools[heap[id].platformType]) >= PoolMaxSize]_vars

-----------------------------------------------------------------------------
(* SpecGame: the game from initialize() on, and from moments of play at which   *)
(* a platform is about to be cleaned up, the player about to die or the last    *)
(* layer about to be passed; frames, touches, the restart timer, restarts by    *)
(* the application and pool cleanups.                                           *)

MaxGameFrames == 5
MaxGameTouches == 1
MaxRestarts == 1
GameLayers == {20, MaxLayer}
FarGap == 7100 * PX
FarHeight == 47 * PX
GameTimes == {TicksPerSecond \div 60}

\* new PlatformPool(), new LevelGenerator(audioManager, pool), initialize()
InitGame ==
  \E seed \in Seeds :
    LET o == [DrainedPool(NowStart) EXCEPT !.stats = NoStats, !.game = GameNew,
                                           !.gen.seed = seed]
        Initialized(v) == Initialize(v, seed)
    IN  \E w \in {With(With(o, PreWarmPools), Initialized)} :
          /\ heap = w.heap /\ pools = w.pools /\ stats = w.stats
          /\ platforms = w.platforms /\ player = w.player /\ game = w.game
          /\ gen = w.gen /\ now = NowStart /\ hist = NoHist

\* the player about to land, on each type of the layer's theme (with one life
\* left on a Dangerous platform), or about to pass the last layer, or falling
\* while the platform far above reaches the cleanup distance
InitMoment ==
  \E layerNum \in GameLayers :
    \/ \E type \in ThemeTypes(layerNum) :
         /\ layerNum = MaxLayer => type = NORMAL
         /\ Moment(layerNum, type, LandingGap, 0, 300 * VelScale,
                   IF layerNum = MaxLayer THEN 20 * PX ELSE 2 * PX,
                   IF type = DANGEROUS THEN 1 ELSE PlayerMaxLives)
    \/ /\ layerNum # MaxLayer
       /\ Moment(layerNum, NORMAL, LandingGap, FarGap, 300 * VelScale, FarHeight,
                 PlayerMaxLives)

\* the seed of the draws after a restart
RestartSeeds == {(gen.seed + 1) % Len(Draws)}

\* the history after a restart
HistAfterRestart(op) ==
  [hist EXCEPT !.restarts = @ + 1, !.landed = 0, !.contact = NoContact,
               !.clock = NoClock,
               !.last = [op |-> op, idx |-> 0, reused |-> FALSE]]

\* the timer gameOver set fires after three seconds and calls restart
RestartTimerAct ==
  /\ game.restartTimer
  /\ \E seed \in RestartSeeds :
       LET t == now + RestartDelaySeconds * TicksPerSecond
           Restarted(o) == Restart(o, seed)
       IN  /\ Commit(With([World EXCEPT !.now = t, !.gen.seed = seed], Restarted))
           /\ now' = t
           /\ hist' = HistAfterRestart("restartTimer")

\* the application restarts the existing game instance
AppRestartAct ==
  /\ hist.restarts < MaxRestarts
  /\ \E seed \in RestartSeeds :
       /\ LET Restarted(o) == Restart(o, seed)
          IN  Commit(With([World EXCEPT !.gen.seed = seed], Restarted))
       /\ hist' = HistAfterRestart("restart")
  /\ UNCHANGED now

\* AngelDescentGame.cleanupObjectPools
CleanupObjectPoolsAct ==
  /\ Commit(With(World, PoolCleanup))
  /\ hist' = [hist EXCEPT !.last = [op |-> "cleanup", idx |-> 0, reused |-> FALSE]]
  /\ UNCHANGED now

NextGame ==
  \/ GameStepAct(MaxGameFrames, GameTimes, StepRand)
  \/ HandleTouchAct(MaxGameTouches)
  \/ HandleTouchEndAct(MaxGameTouches)
  \/ RestartTimerAct
  \/ AppRestartAct
  \/ CleanupObjectPoolsAct

SpecGame == (InitGame \/ InitMoment) /\ [][NextGame]_vars

\* C1: no platform is both in the world's active list and on a free list of the
\* pool; every object on a free list is marked pooled; no platform of the active
\* list is marked pooled.
PoolExclusive ==
  /\ \A t \in DOMAIN pools : \A k \in 1..Len(pools[t]) :
       /\ heap[pools[t][k]].pooled
       /\ pools[t][k] \notin SeqToSet(platforms)
  /\ \A k \in 1..Len(platforms) : ~heap[platforms[k]].pooled

\* a platform that a frame's cleanup released to the pool is active again
PoolExclusiveWitness ==
  /\ \E i \in hist.released : i \in SeqToSet(platforms) /\ ~heap[i].pooled
  /\ stats.totalReleased > 0

\* C10: a frame that is neither paused nor in the tutorial runs each stage once,
\* in the order level generation, player update, platform updates, collisions,
\* layer progress, player bounds; a paused or tutorial frame runs no stage.
StageOrder ==
  /\ hist.kind = "play" =>
       hist.stages = <<"updateLevelGeneration", "playerUpdate", "updatePlatforms",
                       "checkCollisions", "checkLayerProgress", "checkPlayerBounds">>
  /\ hist.kind \in {"paused", "tutorial"} => hist.stages = <<>>

\* a paused frame follows the frame that passed the last layer
StageOrderWitness ==
  /\ hist.kind = "paused"
  /\ hist.frames >= 2
  /\ game.currentLayer > MaxLayer
  /\ hist.stages = <<>>

\* C11: no frame generates more than three new layers, whatever the gap between
\* maxGeneratedLayer and the target layer.
GenerationCapped == hist.generated <= MaxLayersPerFrame

RestartOps == {"restartTimer", "restart"}

\* C35: when the player passes layer 100, gameComplete leaves the game in
\* LEVEL_COMPLETE with updates suspended, the state stays LEVEL_COMPLETE until a
\* restart, and the next touch in that state restarts into a running, unpaused
\* PLAYING state.
CompleteThenTouchRestarts ==
  [][
     /\ (hist'.last.op = "gameStep" /\ game.currentLayer <= MaxLayer
           /\ game'.currentLayer > MaxLayer)
        => (game'.currentState = "level_complete" /\ game'.paused)
     /\ (game.currentState = "level_complete" /\ hist'.last.op \notin RestartOps
           /\ hist'.last.op # "touch")
        => (game'.currentState = "level_complete")
     /\ (game.currentState = "level_complete" /\ hist'.last.op = "touch")
        => (game'.running /\ ~game'.paused /\ game'.currentState = "playing")
    ]_vars

\* what the code does: after the frame that passes the last layer the state is
\* PAUSED with paused set, and neither a touch nor a restart clears paused
CompletedGameIsPaused ==
  /\ [](game.currentLayer > MaxLayer
          => game.paused /\ game.currentState \notin {"level_complete", "playing"})
  /\ [][game.paused => game'.paused]_vars

\* C37: after any interleaving of start, stop, restart, gameOver, timer expiry,
\* touches and frame callbacks at most one gameStep callback is pending;
\* restart() while the loop runs does not leave two loops alive.
OneLoop == game.frames <= 1

\* what the code does: a restart of a running game leaves the old callback
\* pending and requests another, and both go on as loops
TwoLoops ==
  /\ game.frames = 2 /\ game.running
  /\ hist.last.op = "gameStep" /\ hist.restarts = 1

-----------------------------------------------------------------------------
(* SpecClock: the frames of a game that was just started, or is about to pass   *)
(* the last layer, under every kind of frame time: steady frames, stalls,       *)
(* callbacks without an argument, times of another clock and times that go      *)
(* backwards; with a touch and a restart.                                       *)

MaxClockFrames == 3
MaxClockTouches == 1
ClockTimes == {TicksPerSecond \div 60, 2 * TicksPerSecond}

InitClock ==
  \/ InitGame /\ gen.seed = 0
  \/ Moment(MaxLayer, NORMAL, LandingGap, 0, 300 * VelScale, 20 * PX, PlayerMaxLives)

ClockStepAct ==
  FrameAct(MaxClockFrames, ClockTimes, {999}, StampKinds, TRUE)

NextClock ==
  \/ ClockStepAct
  \/ HandleTouchAct(MaxClockTouches)
  \/ AppRestartAct

SpecClock == InitClock /\ [][NextClock]_vars

\* C12: every deltaTime that gameStep passes to update is at least 0 and at most
\* 1/30 s, whatever the times of the frames.
DeltaClamped ==
  hist.clock.dt # -1 => /\ 0 <= hist.clock.dt
                        /\ hist.clock.dt <= TicksPerSecond \div 30

\* update is called in a frame whose time is before lastTime, two seconds after
\* the frame before it
DeltaClampedWitness ==
  /\ hist.last.op = "gameStep" /\ hist.frames >= 2
  /\ hist.clock.raw < 0 /\ hist.clock.dt = 0
  /\ now - NowStart >= 2 * TicksPerSecond

\* C13: the first frame processed after start() calls update with deltaTime 0.
FirstFrameZero ==
  (hist.clock.sinceStart = 1 /\ hist.clock.dt # -1) => hist.clock.dt = 0

-----------------------------------------------------------------------------
(* SpecFall: the player falls with the nearest platform above close by, almost  *)
(* two layer heights away, or with no platform above at all, in the first layer *)
(* and in a deep one.                                                           *)

MaxFallFrames == 4
MaxFallTouches == 1
FallLayer == 20
FallStart == 30 * PX
\* the platform above is 1197 px above the player
TooFarGap == 1197 * PX + 10 * PX + (PlayerHeight * PX) \div 2 + FallStart
\* the platform "above" is below the landing platform
BelowGap == -(300 * PX)

InitFall ==
  \/ \E gap \in {LandingGap, TooFarGap, BelowGap} :
       Moment(FallLayer, NORMAL, gap, 0, 300 * VelScale, FallStart, PlayerMaxLives)
  \/ \E gap \in {LandingGap, BelowGap} :
       Moment(1, NORMAL, gap, 0, 300 * VelScale, FallStart, PlayerMaxLives)

NextFall ==
  \/ GameStepAct(MaxFallFrames, FrameTimes, StepRand)
  \/ HandleTouchAct(MaxFallTouches)
  \/ HandleTouchEndAct(MaxFallTouches)
  \/ RestartTimerAct

SpecFall == InitFall /\ [][NextFall]_vars

\* the y of the undestroyed platforms of the active list above the player
AboveYs ==
  {heap[platforms[k]].y : k \in {j \in 1..Len(platforms) :
                                    /\ ~heap[platforms[j]].destroyed
                                    /\ heap[platforms[j]].y < player.y}}

\* C14: at the bounds evaluation of a frame gameOver('fell_too_far') is raised
\* exactly when an undestroyed platform lies above the player and the nearest one
\* is more than two layer heights (1200 px) away; gameOver('fell_into_void') is
\* raised exactly when no undestroyed platform lies above the player and
\* player.y > 1200; otherwise neither is raised.
FallFailure ==
  (hist.last.op = "gameStep" /\ hist.kind = "play") =>
    /\ hist.fall = "fell_too_far" <=>
         /\ AboveYs # {}
         /\ \A y \in AboveYs : player.y - y > 2 * LayerHeightPx * PX
    /\ hist.fall = "fell_into_void" <=>
         /\ AboveYs = {}
         /\ player.y > 2 * LayerHeightPx * PX
    /\ hist.fall \in {"none", "fell_too_far", "fell_into_void"}

\* the frame in which the distance from the platform above passes 1200 px, after
\* a frame in which it did not
FallFailureWitness ==
  /\ hist.last.op = "gameStep" /\ hist.kind = "play" /\ hist.frames >= 2
  /\ hist.fall = "fell_too_far"
  /\ game.gameOverReason = "fell_too_far"
  /\ \E y \in AboveYs : player.y - y <= 2 * LayerHeightPx * PX + 20 * PX

\* the timer callbacks setTimeout holds do run
SpecFallLive == SpecFall /\ WF_vars(RestartTimerAct)

\* gameOver stops the loop and leaves one restart timer pending
GameOverSchedules ==
  (game.currentState # "game_over" /\ game'.currentState = "game_over")
    => /\ game'.restartTimer /\ ~game'.running
       /\ game'.gameOverReason # "none"

\* the timer's callback runs 3 s later and restarts the game: no timer is left,
\* the list holds newly generated platforms only, the player is reset, the loop
\* runs, in the state PLAYING, or TUTORIAL if the tutorial was never completed
TimerRestarts ==
  hist'.last.op = "restartTimer"
    => /\ game.currentState = "game_over" /\ game.restartTimer
       /\ now' = now + RestartDelaySeconds * TicksPerSecond
       /\ ~game'.restartTimer
       /\ game'.running /\ game'.frames >= 1
       /\ game'.currentState = IF game.hasCompletedTutorial THEN "playing" ELSE "tutorial"
       /\ game'.currentLayer = 1
       /\ player'.x = (PlayerSpawnX2 * PX) \div 2 /\ player'.y = PlayerSpawnY * PX
       /\ player'.vx = 0 /\ player'.vy = 0
       /\ player'.lives = player'.maxLives /\ ~player'.destroyed
       /\ platforms' # <<>>
       /\ SeqToSet(platforms') \cap SeqToSet(platforms) = {}
       /\ \A id \in SeqToSet(platforms') :
            /\ ~heap'[id].destroyed /\ ~heap'[id].pooled
            /\ heap'[id].stepCount = 0 /\ ~heap'[id].activated

\* while the game is in GAME_OVER the loop is stopped and the timer is pending
GameOverHasTimer ==
  game.currentState = "game_over" => game.restartTimer /\ ~game.running

-----------------------------------------------------------------------------
(* SpecOver: the game class with the touch-to-restart branch for GAME_OVER.     *)
(* A fall of more than two layer heights ends the game; touches, frames and the *)
(* restart timer interleave.                                                    *)

MaxOverFrames == 3
MaxOverTouches == 2

\* AngelDescentGame.handleTouch of the class with a GAME_OVER branch: the branch
\* comes after the return for a game that is not running
HandleTouchOver(w, left, done, seed) ==
  IF ~w.game.running THEN w
  ELSE IF w.game.currentState = "level_complete" THEN Restart(w, seed)
  ELSE IF w.game.currentState = "game_over"
    THEN Restart([w EXCEPT !.game.restartTimer = FALSE], seed)
  ELSE HandleTouch(w, left, done, seed)

InitOver ==
  \E layerNum \in {1, FallLayer} :
    Moment(layerNum, NORMAL, IF layerNum = 1 THEN BelowGap ELSE TooFarGap,
           0, 300 * VelScale, FallStart, PlayerMaxLives)

\* a touch start reaches handleTouch
OverTouchAct ==
  /\ hist.touches < MaxOverTouches
  /\ \E left \in BOOLEAN :
       LET Touched(o) == HandleTouchOver(o, left, TRUE, gen.seed)
       IN  /\ Commit(With(World, Touched))
           /\ hist' = [hist EXCEPT !.touches = @ + 1,
                                   !.last = [op |-> "touch", idx |-> 0, reused |-> FALSE]]
  /\ UNCHANGED now

NextOver ==
  \/ GameStepAct(MaxOverFrames, FrameTimes, StepRand)
  \/ OverTouchAct
  \/ RestartTimerAct

SpecOver == InitOver /\ [][NextOver]_vars

\* C34: while the game is in GAME_OVER, a touch restarts the game at once and
\* cancels the pending automatic-restart timer, as a touch does in
\* LEVEL_COMPLETE.
TouchRestartsFailedGame ==
  [][(hist'.last.op = "touch" /\ game.currentState = "game_over")
       => /\ game'.running /\ ~game'.restartTimer
          /\ game'.currentState \in {"playing", "tutorial"}
          /\ player'.y = PlayerSpawnY * PX]_vars

\* what the code does: a touch in GAME_OVER changes nothing but the touch count
TouchIgnoredInGameOver ==
  [][(hist'.last.op = "touch" /\ game.currentState = "game_over")
       => /\ ~game.running
          /\ <<heap, pools, stats, platforms, player, game, gen, now>>'
               = <<heap, pools, stats, platforms, player, game, gen, now>>]_vars

-----------------------------------------------------------------------------
(* SpecLast: the player falls toward the first platform of the last layer, a    *)
(* Normal or a Dangerous one, with one life or all; frames, touches and the     *)
(* restart timer.                                                               *)

MaxLastFrames == 3
MaxLastTouches == 1
\* above y = 60000, the end of the last layer
LastHeights == {18 * PX, 24 * PX}

InitLast ==
  \E type \in {NORMAL, DANGEROUS} \cap ThemeTypes(MaxLayer), h \in LastHeights,
     lives \in {1, PlayerMaxLives} :
    Moment(MaxLayer, type, LandingGap, 0, 300 * VelScale, h, lives)

NextLast ==
  \/ GameStepAct(MaxLastFrames, FrameTimes, StepRand)
  \/ HandleTouchAct(MaxLastTouches)
  \/ RestartTimerAct

SpecLast == InitLast /\ [][NextLast]_vars

\* C36: once gameOver has put the game in GAME_OVER, the state stays GAME_OVER
\* with the same reason until restart runs: while the restart timer gameOver set
\* is pending the state is GAME_OVER, also after the remaining stages of the
\* frame that called gameOver, and no step but a restart changes state or reason.
GameOverStays ==
  /\ [](game.restartTimer => game.currentState = "game_over")
  /\ [][(game.currentState = "game_over" /\ hist'.last.op \notin RestartOps)
          => (game'.currentState = "game_over"
                /\ game'.gameOverReason = game.gameOverReason)]_vars

\* what the code does in the frame of a deadly landing below y = 60000
GameOverThenComplete ==
  /\ game.restartTimer /\ game.gameOverReason = "player_death"
  /\ game.currentState = "paused" /\ game.paused /\ ~game.running
  /\ game.currentLayer > MaxLayer

-----------------------------------------------------------------------------
(* SpecDispose: the owner ends the game with exit() or dispose() at any moment  *)
(* of a fall that ends the game or of a landing; frames, touches and the        *)
(* restart timer go on arriving.                                                *)

MaxDisposeFrames == 4
MaxDisposeTouches == 1
DisposeTimes == {TicksPerSecond \div 60}

\* PlatformPool.destroy
PoolDestroy(w) == [w EXCEPT !.pools = NoPools, !.stats = NoStats]

\* AngelDescentGame.exit: the onExit callback makes the application stop this
\* instance again and drop it
Exit(w) == Stop(Stop(w))

\* AngelDescentGame.dispose
Dispose(w) ==
  PoolDestroy([Stop(w) EXCEPT !.platforms = <<>>, !.player = PlayerNull])

InitDispose ==
  /\ \E gap \in {LandingGap, TooFarGap} :
       Moment(FallLayer, NORMAL, gap, 0, 300 * VelScale, FallStart, PlayerMaxLives)

\* the owner calls exit() or dispose(), once
EndAct ==
  /\ hist.given = 0
  /\ \E how \in {"exit", "dispose"} :
       /\ Commit(IF how = "exit" THEN Exit(World) ELSE Dispose(World))
       /\ hist' = [hist EXCEPT !.given = 1, !.contact = NoContact,
                               !.last = [op |-> how, idx |-> 0, reused |-> FALSE]]
  /\ UNCHANGED now

NextDispose ==
  \/ GameStepAct(MaxDisposeFrames, DisposeTimes, {0})
  \/ HandleTouchAct(MaxDisposeTouches)
  \/ RestartTimerAct
  \/ EndAct

SpecDispose == InitDispose /\ [][NextDispose]_vars

\* C38: after dispose(), or exit()/stop() by the owner, no later event restarts
\* the game by itself: the loop stays stopped, also when a restart timer was left
\* pending by an earlier gameOver.
EndedStaysStopped == hist.given = 1 => ~game.running

\* what the code does: the timer of a gameOver before the dispose() restarts the
\* disposed game, whose loop then runs without a player
DisposedRevived ==
  /\ hist.given = 1 /\ ~HasPlayer(World)
  /\ game.running /\ game.frames > 0 /\ platforms # <<>>
  /\ hist.last.op = "gameStep"

-----------------------------------------------------------------------------
(* SpecSide: the player falls beside a Normal platform, the foot box left of    *)
(* the platform's effective box and at the height of its side face or above     *)
(* its top, and steers with touches.                                            *)

MaxSideFrames == 3
MaxSideTouches == 1
SideLayer == 10
SideGaps == {1 * PX, 5 * PX}
SideDepths == {-(12 * PX), 4 * PX}
SideSpeeds == {0, 300 * VelScale, MaxFallSpeed * VelScale}

InitSide ==
  \E gap \in SideGaps, depth \in SideDepths, vy \in SideSpeeds :
    \E w \in {LandingWorld(NORMAL, SideLayer, LandingGap, 0)} :
      LET p == w.heap[Len(w.heap)]
          x == p.x - (p.width * 14) \div 20 - gap - FootBoxX - FootBoxWidth * PX
          y == p.y - p.height \div 2 + depth - FootBoxY - FootBoxHeight * PX
          playerLayer == Max(1, CeilDiv(y, LayerHeightPx * PX))
          generated == Min(playerLayer + AheadLayersMin, MaxLayer)
      IN  /\ heap = w.heap /\ pools = w.pools /\ stats = w.stats
          /\ platforms = w.platforms
          /\ player = [PlayerNew EXCEPT !.x = x, !.y = y, !.vy = vy]
          /\ game = [GameNew EXCEPT !.currentState = "playing", !.running = TRUE,
                                    !.hasCompletedTutorial = TRUE,
                                    !.currentLayer = playerLayer,
                                    !.maxGeneratedLayer = generated,
                                    !.lastTime = NowStart, !.frames = 1]
          /\ gen = [NoGen EXCEPT !.history = 1 .. generated]
          /\ now = NowStart
          /\ hist = NoHist

NextSide ==
  \/ GameStepAct(MaxSideFrames, FrameTimes, StepRand)
  \/ HandleTouchAct(MaxSideTouches)

SpecSide == InitSide /\ [][NextSide]_vars

\* the foot box is beside the platform p: outside its effective box horizontally,
\* with its bottom edge below the platform's top face
BesideFace(p, pl) ==
  LET visualHalf == (p.width * 14) \div 20
  IN  /\ \/ pl.x + FootBoxX + FootBoxWidth * PX <= p.x - visualHalf
         \/ pl.x + FootBoxX >= p.x + visualHalf
      /\ pl.y + FootBoxY + FootBoxHeight * PX > p.y - p.height \div 2

\* C21 (the contact from the side): a frame that starts with the foot box beside
\* a platform's side face, below its top, does not confirm a landing on it.
SideContactNeverLands ==
  [][(hist'.last.op = "gameStep" /\ hist'.landed # 0 /\ hist'.landed <= Len(heap))
       => ~BesideFace(heap[hist'.landed], player)]_vars

-----------------------------------------------------------------------------
(* SpecPlayer: the player of a running game takes damage and is updated.        *)

MaxDamageCalls == 4
MaxPlayerFrames == 65
PlayerTimes == {TicksPerSecond \div 30}

InitPlayer ==
  \E lives \in 1..PlayerMaxLives :
    /\ heap = <<>> /\ pools = NoPools /\ stats = NoStats /\ platforms = <<>>
    /\ player = [PlayerNew EXCEPT !.lives = lives]
    /\ game = [GameNew EXCEPT !.currentState = "playing", !.running = TRUE,
                              !.hasCompletedTutorial = TRUE,
                              !.lastTime = NowStart, !.frames = 1]
    /\ gen = NoGen /\ now = NowStart /\ hist = NoHist

\* player.takeDamage(1), with the game's listener of 'death'
TakeDamageAct ==
  /\ hist.stepCalls < MaxDamageCalls
  /\ LET r == TakeDamage(player, 1)
         w == EmitDeath([World EXCEPT !.player = r.pl], r.death)
     IN  /\ Commit(w)
         /\ hist' = [hist EXCEPT !.stepCalls = @ + 1,
                                 !.deaths = @ + Len(SelectSeq(w.events, IsDeath)),
                                 !.last = [op |-> "takeDamage", idx |-> 0,
                                           reused |-> FALSE, ret |-> r.ret]]
  /\ UNCHANGED now

\* player.update(dt) in a frame of the running game
PlayerUpdateAct ==
  /\ game.running
  /\ hist.frames < MaxPlayerFrames
  /\ \E dt \in PlayerTimes :
       /\ Commit([World EXCEPT !.player = PlayerUpdate(@, dt)])
       /\ now' = now + dt
       /\ hist' = [hist EXCEPT !.frames = @ + 1,
                               !.last = [op |-> "update", idx |-> 0, reused |-> FALSE]]

NextPlayer == TakeDamageAct \/ PlayerUpdateAct

SpecPlayer == InitPlayer /\ [][NextPlayer]_vars

\* C6: takeDamage(1) on a player with one life who is not invulnerable leaves
\* lives 0, the player destroyed, one 'death' event and the game in GAME_OVER
\* with reason 'player_death'; 'death' is emitted at most once; a takeDamage
\* after death returns false and changes neither the player nor the game.
DeathOnce ==
  /\ [](/\ hist.deaths <= 1
        /\ player.destroyed <=> hist.deaths = 1
        /\ player.destroyed =>
             /\ player.lives = 0
             /\ game.currentState = "game_over"
             /\ game.gameOverReason = "player_death")
  /\ [][(/\ hist'.stepCalls = hist.stepCalls + 1
         /\ player.lives = 1 /\ ~player.isInvulnerable /\ ~player.destroyed)
          => (/\ player'.lives = 0 /\ player'.destroyed
              /\ hist'.deaths = hist.deaths + 1
              /\ game'.currentState = "game_over"
              /\ game'.gameOverReason = "player_death")]_vars
  /\ [][(hist'.stepCalls = hist.stepCalls + 1 /\ player.destroyed)
          => (/\ player' = player /\ game' = game
              /\ ~hist'.last.ret
              /\ hist'.deaths = hist.deaths)]_vars

\* the player died, and takeDamage was called again
DeathOnceWitness ==
  /\ player.destroyed /\ player.lives = 0
  /\ hist.deaths = 1
  /\ hist.last.op = "takeDamage" /\ ~hist.last.ret
  /\ game.gameOverReason = "player_death"

-----------------------------------------------------------------------------
(* SpecHurt: a falling player with a fixed input state takes damage at any      *)
(* moment and is updated with frames of 1/30 s and 1/60 s.                      *)

MaxHurtCalls == 3
MaxHurtTicks == 650
MaxShortFrames == 1
InputStates == {<<FALSE, FALSE>>, <<TRUE, FALSE>>, <<FALSE, TRUE>>}
StatusTimes == {TicksPerSecond \div 60, TicksPerSecond \div 30}

InitHurt ==
  \E lives \in 1..PlayerMaxLives, input \in InputStates :
    /\ heap = <<>> /\ pools = NoPools /\ stats = NoStats /\ platforms = <<>>
    /\ player = SetInput([PlayerNew EXCEPT !.lives = lives], input[1], input[2])
    /\ game = [GameNew EXCEPT !.currentState = "playing", !.running = TRUE,
                              !.hasCompletedTutorial = TRUE,
                              !.lastTime = NowStart, !.frames = 1]
    /\ gen = NoGen /\ now = NowStart /\ hist = NoHist

\* player.takeDamage(1), with the game's listener of 'death'
HurtDamageAct ==
  /\ hist.stepCalls < MaxHurtCalls
  /\ LET r == TakeDamage(player, 1)
         w == EmitDeath([World EXCEPT !.player = r.pl], r.death)
     IN  /\ Commit(w)
         /\ hist' = [hist EXCEPT !.stepCalls = @ + 1,
                                 !.since.hit = IF r.pl.lives < player.lives
                                                 THEN 0 ELSE @,
                                 !.last = [op |-> "takeDamage", idx |-> 0,
                                           reused |-> FALSE, ret |-> r.ret]]
  /\ UNCHANGED now

\* player.update(dt) in a frame of the running game
HurtUpdateAct ==
  /\ game.running
  /\ hist.elapsed < MaxHurtTicks
  /\ \E dt \in StatusTimes :
       /\ dt < TicksPerSecond \div 30 => hist.since.shorts < MaxShortFrames
       /\ Commit([World EXCEPT !.player = PlayerUpdate(@, dt)])
       /\ now' = now + dt
       /\ hist' = [hist EXCEPT !.elapsed = @ + dt,
                               !.since.hit = IF @ >= 0 THEN @ + dt ELSE @,
                               !.since.shorts = IF dt < TicksPerSecond \div 30
                                                  THEN @ + 1 ELSE @,
                               !.last = [op |-> "update", idx |-> dt,
                                         reused |-> FALSE, ret |-> FALSE]]

NextHurt == HurtDamageAct \/ HurtUpdateAct

SpecHurt == InitHurt /\ [][NextHurt]_vars

\* a takeDamage less than 2 s of simulated time after one that took a life
\* returns false and takes no life
DamageBlocked ==
  (/\ hist'.last.op = "takeDamage"
   /\ hist.since.hit >= 0
   /\ hist.since.hit < InvulnerabilitySeconds * TicksPerSecond)
    => /\ ~hist'.last.ret
       /\ player'.lives = player.lives

\* an update of an invulnerable player counts the timer down by deltaTime and
\* clears the flag exactly when the timer reaches zero
FlagClearsAtZero ==
  (hist'.last.op = "update" /\ player.isInvulnerable)
    => /\ player'.isInvulnerable <=> player.invulnerabilityTime > hist'.last.idx
       /\ player'.invulnerabilityTime =
            Max(0, player.invulnerabilityTime - hist'.last.idx)

\* an update of a player who is not frozen sets the horizontal velocity from the
\* input state alone, invulnerable or not
InputUnrestricted ==
  (hist'.last.op = "update" /\ ~player.isFrozen)
    => /\ player.leftPressed => player'.vx = -(HorizontalSpeed * VelScale)
       /\ (~player.leftPressed /\ player.rightPressed)
            => player'.vx = HorizontalSpeed * VelScale
       /\ (~player.leftPressed /\ ~player.rightPressed)
            => Abs(player'.vx) <= Abs(player.vx)

\* during the 2 s after the hit the flag is set and the timer holds what is left
\* of them
InvulnerableForTwoSeconds ==
  (hist.since.hit >= 0 /\ hist.since.hit < InvulnerabilitySeconds * TicksPerSecond)
    => /\ player.isInvulnerable
       /\ player.invulnerabilityTime =
            InvulnerabilitySeconds * TicksPerSecond - hist.since.hit

\* C19: after a takeDamage that takes a life, every takeDamage returns false and
\* leaves the lives unchanged until 2.0 s of simulated time have passed; the
\* invulnerable flag clears in the first update in which its timer reaches zero;
\* invulnerability never restricts the horizontal input.
InvulnerabilityWindow ==
  /\ [][DamageBlocked /\ FlagClearsAtZero /\ InputUnrestricted]_vars
  /\ []InvulnerableForTwoSeconds

\* a takeDamage in the last frame of the 2 s, refused, of a player moving left
InvulnerabilityWitness ==
  /\ hist.last.op = "takeDamage" /\ ~hist.last.ret
  /\ hist.since.hit >= InvulnerabilitySeconds * TicksPerSecond - TicksPerSecond \div 30
  /\ hist.since.hit < InvulnerabilitySeconds * TicksPerSecond
  /\ hist.since.shorts = 1
  /\ player.isInvulnerable /\ ~player.destroyed
  /\ player.lives = PlayerMaxLives - 1
  /\ player.leftPressed
  /\ player.vx = -(HorizontalSpeed * VelScale)

\* C24: after every Player.update the player's x lies in the world rectangle
\* [-562.5, 562.5] px.
HorizontalClamp ==
  hist.last.op = "update"
    => /\ -WorldHalfWidth <= player.x
       /\ player.x <= WorldHalfWidth

\* C25: one Player.update(dt) of an airborne player is one semi-implicit Euler
\* step: velocity.y grows by gravity x dt up to maxFallSpeed, and then the position
\* changes by exactly velocity x dt.
SingleEulerStep ==
  [][(hist'.last.op = "update" /\ ~player.onGround)
       => LET dt == hist'.last.idx
          IN  /\ player'.vy = Min(player.vy + (Gravity * VelScale * dt) \div TicksPerSecond,
                                  MaxFallSpeed * VelScale)
              /\ player'.vy <= MaxFallSpeed * VelScale
              /\ player'.y = player.y + player'.vy * dt]_vars

-----------------------------------------------------------------------------
(* SpecFrozen: a falling player with a fixed input state is frozen, as by an    *)
(* ice platform, and updated with frames of 1/30 s and 1/60 s. Frames keep      *)
(* running for at least the freeze duration after every freeze.                 *)

MaxFreezes == 2
MaxFrozenTicks == 650

InitFrozen ==
  \E input \in InputStates :
    /\ heap = <<>> /\ pools = NoPools /\ stats = NoStats /\ platforms = <<>>
    /\ player = SetInput(PlayerNew, input[1], input[2])
    /\ game = [GameNew EXCEPT !.currentState = "playing", !.running = TRUE,
                              !.hasCompletedTutorial = TRUE,
                              !.lastTime = NowStart, !.frames = 1]
    /\ gen = NoGen /\ now = NowStart /\ hist = NoHist

\* player.freeze(2.0), as handleIceStep calls it
FreezeAct ==
  /\ hist.stepCalls < MaxFreezes
  /\ hist.elapsed + IceFreezeSeconds * TicksPerSecond <= MaxFrozenTicks
  /\ player' = Freeze(player, IceFreezeSeconds * TicksPerSecond)
  /\ hist' = [hist EXCEPT !.stepCalls = @ + 1,
                          !.since.freeze = 0,
                          !.last = [op |-> "freeze", idx |-> 0, reused |-> FALSE]]
  /\ UNCHANGED <<heap, pools, stats, platforms, game, gen, now>>

\* player.update(dt) in a frame of the running game
FrozenUpdateAct ==
  /\ hist.elapsed < MaxFrozenTicks
  /\ \E dt \in StatusTimes :
       /\ dt < TicksPerSecond \div 30 => hist.since.shorts < MaxShortFrames
       /\ player' = PlayerUpdate(player, dt)
       /\ now' = now + dt
       /\ hist' = [hist EXCEPT !.elapsed = @ + dt,
                               !.since.freeze = IF @ >= 0 THEN @ + dt ELSE @,
                               !.since.shorts = IF dt < TicksPerSecond \div 30
                                                  THEN @ + 1 ELSE @,
                               !.last = [op |-> "update", idx |-> dt,
                                         reused |-> FALSE]]
  /\ UNCHANGED <<heap, pools, stats, platforms, game, gen>>

NextFrozen == FreezeAct \/ FrozenUpdateAct

SpecFrozen == InitFrozen /\ [][NextFrozen]_vars

\* the frame loop keeps calling update
SpecFrozenLive == SpecFrozen /\ WF_vars(FrozenUpdateAct)

\* an update of a frozen player leaves the horizontal velocity 0, whatever the
\* input state
FrozenStill ==
  (hist'.last.op = "update" /\ player.isFrozen) => player'.vx = 0

\* an update of a frozen player moves it vertically as it moves a player who is
\* not frozen: gravity up to the maximum fall speed, then the position
FrozenFalls ==
  (hist'.last.op = "update" /\ player.isFrozen)
    => LET dt == hist'.last.idx
           thawed == PlayerUpdate([player EXCEPT !.isFrozen = FALSE], dt)
       IN  /\ player'.vy = thawed.vy /\ player'.y = thawed.y
           /\ player'.vy = Min(player.vy + (Gravity * VelScale * dt) \div TicksPerSecond,
                               MaxFallSpeed * VelScale)
           /\ player'.y > player.y

\* an update of a frozen player counts the freeze timer down by deltaTime and
\* clears the flag exactly when the timer reaches zero
FreezeCountsDown ==
  (hist'.last.op = "update" /\ player.isFrozen)
    => /\ player'.freezeTime = Max(0, player.freezeTime - hist'.last.idx)
       /\ player'.isFrozen <=> player.freezeTime > hist'.last.idx

\* from the freeze until the accumulated time reaches its duration the flag is
\* set and the timer holds what is left
FrozenForDuration ==
  (hist.since.freeze >= 0 /\ hist.since.freeze < IceFreezeSeconds * TicksPerSecond)
    => /\ player.isFrozen
       /\ player.freezeTime = IceFreezeSeconds * TicksPerSecond - hist.since.freeze

\* C20: while the player is frozen the horizontal velocity is 0 after every update
\* whatever the input state, and gravity and the vertical motion go on unchanged;
\* the freeze timer decreases by deltaTime in every update, and with frames running
\* and no new freeze the frozen flag eventually clears.
FreezeHoldsThenClears ==
  /\ [][FrozenStill /\ FrozenFalls /\ FreezeCountsDown]_vars
  /\ []FrozenForDuration
  /\ (player.isFrozen ~> ~player.isFrozen)

\* the update in which a freeze ends, the player pressing left since before it
FreezeWitness ==
  /\ hist.last.op = "update"
  /\ hist.since.freeze >= IceFreezeSeconds * TicksPerSecond
  /\ hist.since.freeze < IceFreezeSeconds * TicksPerSecond + TicksPerSecond \div 30
  /\ ~player.isFrozen /\ player.freezeTime = 0
  /\ player.leftPressed /\ player.vx = 0
  /\ player.x = (PlayerSpawnX2 * PX) \div 2
  /\ player.vy = MaxFallSpeed * VelScale

-----------------------------------------------------------------------------
(* SpecMoving: the generator makes one Moving platform, with new Platform(...),  *)
(* from a pre-warmed pool or from a pool whose Moving platform was in the world *)
(* before; the platform is updated frame by frame, stepped on and released.     *)

MaxMovingSteps == 1
MaxMovingTicks == 700
MovingLayers == {1, MaxLayer}
MovingXs == {0, 100 * PX}

\* a pool whose next Moving platform was made at x = 40 px, has moved to its right
\* bound and turned there, was stepped on and released
UsedMovingPool ==
  LET Got(o) == PoolGet(o, MOVING, 40 * PX, LayerHeightPx * PX, 110 * PX, 20 * PX, 1)
      Moved(a) ==
        [a EXCEPT !.heap[a.ret] =
           OnPlayerStep(PlatformUpdate(@, 2 * TicksPerSecond), PlayerNew, 0, a.now).p]
      Back(b) == PoolRelease(b, b.ret)
  IN  With(With(With(PoolNew(NowStart), Got), Moved), Back)

InitMoving ==
  \E source \in {"new", "warm", "used"} :
    \E w \in {IF source = "used" THEN UsedMovingPool ELSE PoolNew(NowStart)} :
      /\ heap = w.heap /\ pools = w.pools /\ stats = w.stats
      /\ platforms = <<>>
      /\ player = PlayerNew
      /\ game = NoGame /\ gen = [NoGen EXCEPT !.usePool = (source # "new")]
      /\ now = NowStart /\ hist = NoHist

\* the generator makes the Moving platform at x, from the pool or with new
\* Platform(...), and gives it the speed of its layer
MovingGetAct ==
  /\ platforms = <<>>
  /\ hist.touches = 0
  /\ \E x \in MovingXs, layerNum \in MovingLayers :
       \E w \in {IF gen.usePool
                   THEN PoolGet(World, MOVING, x, layerNum * LayerHeightPx * PX,
                                110 * PX, 20 * PX, layerNum)
                   ELSE CreateNewPlatform(World, MOVING, x, layerNum * LayerHeightPx * PX,
                                          110 * PX, 20 * PX, layerNum)} :
         /\ Commit([w EXCEPT !.heap[w.ret] =
                               ApplySpecialPlatformProperties(@, CalculateDifficulty(layerNum)),
                             !.platforms = <<w.ret>>])
         /\ hist' = [hist EXCEPT !.touches = @ + 1, !.given = x,
                                 !.last = [op |-> "get", idx |-> w.ret,
                                           reused |-> w.ret <= Len(heap)]]
  /\ UNCHANGED now

\* platform.update(dt)
MovingUpdateAct ==
  /\ platforms # <<>>
  /\ hist.elapsed < MaxMovingTicks
  /\ \E dt \in StatusTimes :
       /\ dt < TicksPerSecond \div 30 => hist.since.shorts < MaxShortFrames
       /\ heap' = [heap EXCEPT ![platforms[1]] = PlatformUpdate(@, dt)]
       /\ now' = now + dt
       /\ hist' = [hist EXCEPT !.elapsed = @ + dt,
                               !.since.shorts = IF dt < TicksPerSecond \div 30
                                                  THEN @ + 1 ELSE @,
                               !.last = [op |-> "update", idx |-> dt,
                                         reused |-> FALSE]]
  /\ UNCHANGED <<pools, stats, platforms, player, game, gen>>

\* platform.onPlayerStep(player)
MovingStepAct ==
  /\ platforms # <<>>
  /\ hist.stepCalls < MaxMovingSteps
  /\ \E r \in {OnPlayerStep(heap[platforms[1]], player, 0, now)} :
       /\ heap' = [heap EXCEPT ![platforms[1]] = r.p]
       /\ player' = r.pl
       /\ hist' = [hist EXCEPT !.stepCalls = @ + 1,
                               !.last = [op |-> "step", idx |-> 0, reused |-> FALSE]]
  /\ UNCHANGED <<pools, stats, platforms, game, gen, now>>

\* the platform leaves the world: released to the pool, if there is one
MovingReleaseAct ==
  /\ platforms # <<>>
  /\ Commit([(IF gen.usePool THEN PoolRelease(World, platforms[1]) ELSE World)
               EXCEPT !.platforms = <<>>])
  /\ hist' = [hist EXCEPT !.last = [op |-> "release", idx |-> 0, reused |-> FALSE]]
  /\ UNCHANGED now

NextMoving == MovingGetAct \/ MovingUpdateAct \/ MovingStepAct \/ MovingReleaseAct

SpecMoving == InitMoving /\ [][NextMoving]_vars

\* the platform in the world starts from the x it was given and is within its
\* range of it
MovingInRange ==
  platforms # <<>> =>
    LET p == heap[platforms[1]]
    IN  /\ p.startX = hist.given
        /\ p.moveRange = MovingRange * PX
        /\ p.moveSpeed = CalculateDifficulty(p.layer).movePlatformSpeed
        /\ p.startX - p.moveRange <= p.x
        /\ p.x <= p.startX + p.moveRange

\* an update moves the platform by speed x dt in its direction, up to the bound,
\* and turns it exactly when it arrives at the bound it moves toward
MovingPingPong ==
  hist'.last.op = "update" =>
    LET p == heap[platforms[1]]
        q == heap'[platforms[1]]
        nx == p.x + p.moveSpeed * p.moveDirection * hist'.last.idx
    IN  /\ q.x = Max(p.startX - p.moveRange, Min(p.startX + p.moveRange, nx))
        /\ q.moveDirection # p.moveDirection
             <=> \/ p.moveDirection = 1 /\ q.x = p.startX + p.moveRange
                 \/ p.moveDirection = -1 /\ q.x = p.startX - p.moveRange
        /\ q.moveDirection \in {1, -1}
        /\ q.startX = p.startX /\ q.moveSpeed = p.moveSpeed

\* a step changes neither the position nor the direction
MovingStepKeeps ==
  hist'.last.op = "step" =>
    /\ heap'[platforms[1]].x = heap[platforms[1]].x
    /\ heap'[platforms[1]].moveDirection = heap[platforms[1]].moveDirection
    /\ heap'[platforms[1]].stepCount = heap[platforms[1]].stepCount + 1

\* C26: after every update a Moving platform's x lies in [startX - moveRange,
\* startX + moveRange], startX being the x it was given at construction or at pool
\* retrieval; it moves in every update at its configured speed, turns exactly when
\* it reaches a bound, and onPlayerStep changes neither its position nor its
\* direction.
MovingPlatformBounds ==
  /\ []MovingInRange
  /\ [][MovingPingPong /\ MovingStepKeeps]_vars

\* a platform recycled from the pool at x = 100 px has turned at its right bound
\* and has come back to its left bound, stepped on on the way
MovingWitness ==
  /\ platforms # <<>>
  /\ hist.last.op = "update" /\ hist.given = 100 * PX
  /\ pools[MOVING] # PoolNew(NowStart).pools[MOVING]
  /\ stats.totalReleased = 1
  /\ heap[platforms[1]].x = 100 * PX - MovingRange * PX
  /\ heap[platforms[1]].moveDirection = 1
  /\ heap[platforms[1]].stepCount >= 1

-----------------------------------------------------------------------------
(* SpecIce: the generator makes one Ice platform, with new Platform(...), from  *)
(* a pre-warmed pool or from a pool whose Ice platform has just frozen the      *)
(* player; frames update the player and the platform, and the player steps on   *)
(* the platform at any moment.                                                  *)

MaxIceSteps == 3
MaxIceTicks == 950
IceLayer == 30

\* a pool whose next Ice platform has frozen a player at this very moment and
\* was released
UsedIcePool ==
  LET Got(o) == PoolGet(o, ICE, 0, IceLayer * LayerHeightPx * PX, 110 * PX, 20 * PX,
                        IceLayer)
      Stepped(a) ==
        [a EXCEPT !.heap[a.ret] = OnPlayerStep(@, PlayerNew, 0, a.now).p]
      Back(b) == PoolRelease(b, b.ret)
  IN  With(With(With(PoolNew(NowStart), Got), Stepped), Back)

InitIce ==
  \E source \in {"new", "warm", "used"} :
    \E w \in {IF source = "used" THEN UsedIcePool ELSE PoolNew(NowStart)} :
      /\ heap = w.heap /\ pools = w.pools /\ stats = w.stats
      /\ platforms = <<>>
      /\ player = PlayerNew
      /\ game = NoGame /\ gen = [NoGen EXCEPT !.usePool = (source # "new")]
      /\ now = NowStart /\ hist = NoHist

\* the generator makes the Ice platform, from the pool or with new Platform(...)
IceGetAct ==
  /\ platforms = <<>>
  /\ hist.touches = 0
  /\ \E w \in {IF gen.usePool
                 THEN PoolGet(World, ICE, 0, IceLayer * LayerHeightPx * PX,
                              110 * PX, 20 * PX, IceLayer)
                 ELSE CreateNewPlatform(World, ICE, 0, IceLayer * LayerHeightPx * PX,
                                        110 * PX, 20 * PX, IceLayer)} :
       /\ Commit([w EXCEPT !.heap[w.ret] =
                             ApplySpecialPlatformProperties(@, CalculateDifficulty(IceLayer)),
                           !.platforms = <<w.ret>>])
       /\ hist' = [hist EXCEPT !.touches = @ + 1,
                               !.last = [op |-> "get", idx |-> w.ret,
                                         reused |-> w.ret <= Len(heap)]]
  /\ UNCHANGED now

\* one frame: player.update(dt) and platform.update(dt)
IceUpdateAct ==
  /\ platforms # <<>>
  /\ hist.elapsed < MaxIceTicks
  /\ \E dt \in {TicksPerSecond \div 30} :
       /\ player' = PlayerUpdate(player, dt)
       /\ heap' = [heap EXCEPT ![platforms[1]] = PlatformUpdate(@, dt)]
       /\ now' = now + dt
       /\ hist' = [hist EXCEPT !.elapsed = @ + dt,
                               !.since.freeze = IF @ >= 0 THEN @ + dt ELSE @,
                               !.last = [op |-> "update", idx |-> dt,
                                         reused |-> FALSE]]
  /\ UNCHANGED <<pools, stats, platforms, game, gen>>

\* platform.onPlayerStep(player); since.freeze restarts when the platform records
\* a freeze
IceStepAct ==
  /\ platforms # <<>>
  /\ hist.stepCalls < MaxIceSteps
  /\ \E r \in {OnPlayerStep(heap[platforms[1]], player, 0, now)} :
       /\ heap' = [heap EXCEPT ![platforms[1]] = r.p]
       /\ player' = r.pl
       /\ hist' = [hist EXCEPT !.stepCalls = @ + 1,
                               !.since.freeze =
                                 IF r.p.lastFreezeTime # heap[platforms[1]].lastFreezeTime
                                   THEN 0 ELSE @,
                               !.last = [op |-> "step", idx |-> 0, reused |-> r.ret]]
  /\ UNCHANGED <<pools, stats, platforms, game, gen, now>>

NextIce == IceGetAct \/ IceUpdateAct \/ IceStepAct

SpecIce == InitIce /\ [][NextIce]_vars

\* the step freezes the player: 2 s of frozen status, recorded by the platform
IceFroze ==
  /\ player' = Freeze(player, IceFreezeSeconds * TicksPerSecond)
  /\ player'.isFrozen /\ player'.freezeTime = IceFreezeSeconds * TicksPerSecond
  /\ heap'[platforms[1]].lastFreezeTime = now

\* C27: an Ice platform freezes the player on onPlayerStep only if more than
\* freezeCooldown (3 s) has passed since this platform last froze the player, so
\* two freezes by one platform are more than 3 s apart; a step inside the
\* cooldown leaves the player (and the freeze timer) unchanged; the first step on
\* a fresh or pool-recycled Ice platform always freezes.
IceCooldown ==
  [][hist'.last.op = "step"
       => IF hist.since.freeze < 0
               \/ hist.since.freeze > IceFreezeCooldownSeconds * TicksPerSecond
            THEN IceFroze
            ELSE /\ player' = player
                 /\ heap'[platforms[1]].lastFreezeTime = heap[platforms[1]].lastFreezeTime]_vars

\* a recycled Ice platform froze the player at its first step, left the player
\* alone at a step exactly 3 s later, and froze the player again after that
IceCooldownWitness ==
  /\ platforms # <<>> /\ stats.totalReleased = 1
  /\ hist.last.op = "step" /\ hist.stepCalls = 3
  /\ hist.since.freeze = 0
  /\ hist.elapsed = IceFreezeCooldownSeconds * TicksPerSecond + TicksPerSecond \div 30
  /\ player.isFrozen

-----------------------------------------------------------------------------
(* SpecGen: a level generator with a pre-warmed pool, a drained pool or no pool *)
(* generates a layer; ensurePlatformAccessibility is given an empty list or the *)
(* layer's list.                                                                *)

MaxGenerations == 1
MaxEnsures == 1
EnsureLayers == {1, 50, MaxLayer}

InitGen ==
  \E pool \in {"warm", "drained", "none"} :
    LET o == [DrainedPool(NowStart) EXCEPT !.stats = NoStats]
        w == IF pool = "warm" THEN PreWarmPools(o) ELSE o
    IN  /\ heap = w.heap /\ pools = w.pools /\ stats = w.stats
        /\ platforms = <<>> /\ player = PlayerNew /\ game = NoGame
        /\ gen = [NoGen EXCEPT !.usePool = (pool # "none")]
        /\ now = NowStart /\ hist = NoHist

\* levelGenerator.generateLayer(layerNum), its random draws given by seed
GenerateLayerAct ==
  /\ hist.stepCalls < MaxGenerations
  /\ \E layerNum \in 1..MaxLayer, seed \in Seeds :
       /\ Commit(GenerateLayer(World, layerNum, DrawsFor(seed, layerNum)))
       /\ hist' = [hist EXCEPT !.stepCalls = @ + 1,
                               !.last = [op |-> "generateLayer", idx |-> layerNum,
                                         reused |-> FALSE]]
  /\ UNCHANGED now

\* levelGenerator.ensurePlatformAccessibility(list, layerY)
EnsureAct ==
  /\ hist.elapsed < MaxEnsures
  /\ \E layerNum \in EnsureLayers, list \in {<<>>, gen.last} :
       /\ Commit(EnsurePlatformAccessibility(World, list, layerNum * LayerHeightPx * PX))
       /\ hist' = [hist EXCEPT !.elapsed = @ + 1,
                               !.last = [op |-> "ensure", idx |-> Len(list),
                                         reused |-> FALSE]]
  /\ UNCHANGED now

NextGen == GenerateLayerAct \/ EnsureAct

SpecGen == InitGen /\ [][NextGen]_vars

\* C8: generateLayer(n), n in 1..100, returns at least one platform, with or
\* without a pool; ensurePlatformAccessibility adds exactly one Normal platform
\* to an empty list and nothing to a list that has a platform.
LayerNotEmpty ==
  /\ hist.last.op = "generateLayer" =>
       /\ Len(gen.last) >= 1
       /\ \A k \in 1..Len(gen.last) :
            /\ gen.last[k] \in 1..Len(heap)
            /\ heap[gen.last[k]].layer = hist.last.idx
  /\ hist.last.op = "ensure" =>
       IF hist.last.idx = 0
         THEN Len(gen.last) = 1 /\ heap[gen.last[1]].platformType = NORMAL
         ELSE Len(gen.last) = hist.last.idx

\* the fallback was added, with and without a pool
LayerNotEmptyWitness ==
  /\ hist.last.op = "ensure" /\ hist.last.idx = 0
  /\ Len(gen.last) = 1
  /\ heap[gen.last[1]].platformType = NORMAL
  /\ hist.stepCalls = 1
  /\ ~gen.usePool

\* C32: the number of platforms generateLayer makes for a layer follows the
\* values documented for calculateDifficulty: 5 platforms for the starting layers
\* 1-10, 3 platforms at layer 50 and 2 platforms at layer 90.
DocumentedPlatformCounts ==
  hist.last.op = "generateLayer" =>
    /\ hist.last.idx \in 1..10 => Len(gen.last) = 5
    /\ hist.last.idx = 50 => Len(gen.last) = 3
    /\ hist.last.idx = 90 => Len(gen.last) = 2

-----------------------------------------------------------------------------
(* SpecFragile: generateLayer with a pre-warmed pool, with a pool whose Fragile *)
(* platforms were used in layer 1 and released, or without a pool; the player   *)
(* then steps on the layer's Fragile platforms.                                 *)

MaxFragileSteps == 4
FragileLayers == {1, 19, 20, 39, 40, MaxLayer}

\* get a Fragile platform for layer 1 as generatePlatforms does, step on it n times
\* and release it
RECURSIVE StepTimes(_, _, _)
StepTimes(p, n, t) ==
  IF n = 0 THEN p ELSE StepTimes(OnPlayerStep(p, PlayerNew, 0, t).p, n - 1, t)

UseFragile(w, n) ==
  LET Got(o) == PoolGet(o, FRAGILE, 0, LayerHeightPx * PX, 90 * PX, 20 * PX, 1)
      Used(a) ==
        [a EXCEPT !.heap[a.ret] =
           StepTimes(ApplySpecialPlatformProperties(@, CalculateDifficulty(1)), n, a.now)]
      Back(b) == PoolRelease(b, b.ret)
  IN  With(With(With(w, Got), Used), Back)

\* the pool's next Fragile platform was stepped on once; the pool's other
\* platforms are as pre-warmed
UsedFragilePool == UseFragile(PoolNew(NowStart), 1)

\* the pool's next Fragile platform was broken by its third step
BrokenFragilePool == UseFragile(PoolNew(NowStart), FragileMaxSteps)

InitFragile ==
  \E source \in {"new", "warm", "used", "broken"} :
    \E w \in {CASE source = "used" -> UsedFragilePool
                [] source = "broken" -> BrokenFragilePool
                [] OTHER -> PoolNew(NowStart)} :
      /\ heap = w.heap /\ pools = w.pools /\ stats = w.stats
      /\ platforms = <<>>
      /\ player = PlayerNew
      /\ game = NoGame /\ gen = [NoGen EXCEPT !.usePool = (source # "new")]
      /\ now = NowStart /\ hist = NoHist

\* levelGenerator.generateLayer(layerNum), its random draws given by seed
FragileGenerateAct ==
  /\ gen.last = <<>>
  /\ \E layerNum \in FragileLayers, seed \in Seeds :
       /\ Commit(GenerateLayer(World, layerNum, DrawsFor(seed, layerNum)))
       /\ hist' = [hist EXCEPT !.last = [op |-> "generateLayer", idx |-> layerNum,
                                         reused |-> FALSE]]
  /\ UNCHANGED now

\* platform.onPlayerStep(player) of a Fragile platform of the layer
FragileStepAct ==
  /\ hist.stepCalls < MaxFragileSteps
  /\ \E k \in 1..Len(gen.last) :
       /\ heap[gen.last[k]].platformType = FRAGILE
       /\ \E r \in {OnPlayerStep(heap[gen.last[k]], player, 0, now)} :
            /\ heap' = [heap EXCEPT ![gen.last[k]] = r.p]
            /\ player' = r.pl
            /\ hist' = [hist EXCEPT !.stepCalls = @ + 1,
                                    !.last = [op |-> "step", idx |-> gen.last[k],
                                              reused |-> r.ret]]
  /\ UNCHANGED <<pools, stats, platforms, game, gen, now>>

NextFragile == FragileGenerateAct \/ FragileStepAct

SpecFragile == InitFragile /\ [][NextFragile]_vars

\* durability(n) = max(1, 3 - floor(n / 20))
Durability(n) == IF 3 - n \div 20 > 1 THEN 3 - n \div 20 ELSE 1

\* calculateDifficulty gives durability(n), which never grows with n and is never
\* below 1
DurabilityFormula ==
  /\ \A n \in 1..MaxLayer :
       /\ CalculateDifficulty(n).fragilePlatformDurability = Durability(n)
       /\ CalculateDifficulty(n).fragilePlatformDurability >= 1
  /\ \A n \in 1..(MaxLayer - 1) :
       CalculateDifficulty(n).fragilePlatformDurability
         >= CalculateDifficulty(n + 1).fragilePlatformDurability

\* the Fragile platforms of the layer generateLayer has returned
LayerFragiles ==
  {gen.last[k] : k \in {j \in 1..Len(gen.last) : heap[gen.last[j]].platformType = FRAGILE}}

\* a Fragile platform of the layer has the layer's durability; it is intact as
\* returned and destroyed exactly when it has been stepped on durability(n) times
FragileAsGenerated ==
  \A id \in LayerFragiles :
    /\ heap[id].layer = gen.layer
    /\ heap[id].maxSteps = Durability(gen.layer)
    /\ hist.last.op = "generateLayer" => heap[id].stepCount = 0
    /\ heap[id].stepCount <= heap[id].maxSteps
    /\ heap[id].destroyed <=> heap[id].stepCount = Durability(gen.layer)
    /\ ~heap[id].destroyed => heap[id].solid /\ ~heap[id].pooled

\* C28: durability(n) = max(1, 3 - floor(n/20)) is non-increasing in n and never
\* below 1; every Fragile platform returned by generateLayer(n), fresh or
\* recycled after any use, has maxSteps = durability(n) and stepCount 0, so it is
\* destroyed after exactly durability(n) landings.
FragileDurability == DurabilityFormula /\ FragileAsGenerated

\* a platform broken in layer 1 and recycled for layer 20 has survived one step
\* and is destroyed by the second
FragileDurabilityWitness ==
  /\ stats.totalReleased = 1
  /\ gen.layer = 20
  /\ hist.last.op = "step"
  /\ hist.last.idx = BrokenFragilePool.pools[FRAGILE][Len(BrokenFragilePool.pools[FRAGILE])]
  /\ heap[hist.last.idx].maxSteps = 2
  /\ heap[hist.last.idx].stepCount = 2
  /\ heap[hist.last.idx].destroyed

\* C30: onPlayerStep(player) returns whether the platform is still solid after
\* the step: true when it remains usable, false when it is (or already was)
\* destroyed or non-solid, including the step that exhausts a Fragile platform's
\* durability.  (hist.last.reused is the value the call returned.)
StepReturnsStillSolid ==
  hist.last.op = "step"
    => (hist.last.reused
          <=> heap[hist.last.idx].solid /\ ~heap[hist.last.idx].destroyed)

-----------------------------------------------------------------------------
(* SpecSpawn: the game from initialize() on, or from a restart() after the      *)
(* tutorial, on a device with a steady frame time of 1/60 s or 1/30 s; the only *)
(* touches are those that pass the tutorial, so the player receives no input.   *)

MaxSpawnFrames == 18
MaxSpawnTouches == 2

\* new PlatformPool(), new LevelGenerator(audioManager, pool), initialize(); or
\* the tutorial passed and restart() called after that
InitSpawn ==
  \E seed \in Seeds, dt \in StatusTimes, restarted \in BOOLEAN :
    LET o == [DrainedPool(NowStart) EXCEPT !.stats = NoStats, !.game = GameNew,
                                           !.gen.seed = seed]
        Initialized(v) == Initialize(v, seed)
        Touched(v) == HandleTouch(v, FALSE, TRUE, seed)
        Restarted(v) == Restart(v, (seed + 1) % Len(Draws))
        a == With(With(o, PreWarmPools), Initialized)
    IN  \E w \in {IF restarted THEN With(With(a, Touched), Restarted) ELSE a} :
          /\ heap = w.heap /\ pools = w.pools /\ stats = w.stats
          /\ platforms = w.platforms /\ player = w.player /\ game = w.game
          /\ gen = [w.gen EXCEPT !.seed = IF restarted THEN (seed + 1) % Len(Draws)
                                          ELSE seed]
          /\ now = NowStart
          /\ hist = [NoHist EXCEPT !.given = dt,
                                   !.restarts = IF restarted THEN 1 ELSE 0]

\* a touch while the tutorial is shown; done: the overlay reports it is finished
TutorialTouchAct ==
  /\ game.currentState = "tutorial"
  /\ hist.touches < MaxSpawnTouches
  /\ \E done \in BOOLEAN :
       LET Touched(o) == HandleTouch(o, FALSE, done, gen.seed)
       IN  /\ Commit(With(World, Touched))
           /\ hist' = [hist EXCEPT !.touches = @ + 1,
                                   !.last = [op |-> "touch", idx |-> 0, reused |-> done]]
  /\ UNCHANGED now

NextSpawn ==
  \/ GameStepAct(MaxSpawnFrames, {hist.given}, StepRand)
  \/ TutorialTouchAct

SpecSpawn == InitSpawn /\ [][NextSpawn]_vars

\* the platforms of the active list that a player falling from the spawn point
\* comes down on: solid, under the foot box, their top face below the player's
\* feet at the spawn and less than two layer heights below the spawn
UnderSpawn ==
  {id \in SeqToSet(platforms) :
     /\ ~heap[id].destroyed /\ heap[id].solid
     /\ heap[id].x - heap[id].width \div 2 <= (PlayerSpawnX2 * PX) \div 2 + FootBoxX
     /\ (PlayerSpawnX2 * PX) \div 2 - FootBoxX <= heap[id].x + heap[id].width \div 2
     /\ heap[id].y - heap[id].height \div 2 > PlayerSpawnY * PX + (PlayerHeight * PX) \div 2
     /\ heap[id].y - PlayerSpawnY * PX < 2 * LayerHeightPx * PX}

\* the first platform under the spawn point on the way down
SpawnTarget == CHOOSE id \in UnderSpawn : \A other \in UnderSpawn : heap[id].y <= heap[other].y

\* the player's y when it stands on platform id
StandingY(id) == heap[id].y - heap[id].height \div 2 - player.height \div 2

\* no failure was raised; a platform is under the spawn point; until the player
\* has landed on the first of them it is in the air above it, and from then on
\* its feet are on the platform's top face or in its upper half (updatePhysics
\* clears onGround in every frame, and the player lands again)
SpawnSafe ==
  /\ game.gameOverReason = "none" /\ hist.fall = "none"
  /\ game.currentState \in {"tutorial", "playing"}
  /\ UnderSpawn # {}
  /\ player.x = (PlayerSpawnX2 * PX) \div 2
  /\ player.onGround => player.y = StandingY(SpawnTarget)
  /\ IF heap[SpawnTarget].stepCount = 0
       THEN /\ ~player.onGround
            /\ PlayerSpawnY * PX <= player.y /\ player.y < StandingY(SpawnTarget)
       ELSE /\ StandingY(SpawnTarget) <= player.y
            /\ player.y + player.height \div 2 < heap[SpawnTarget].y

\* a frame of play brings the player that has not landed further down or onto
\* the platform
SpawnFalls ==
  (hist'.last.op = "gameStep" /\ hist'.kind = "play" /\ heap[SpawnTarget].stepCount = 0)
    => \/ player'.y > player.y /\ player'.vy > player.vy /\ hist'.landed = 0
       \/ player'.onGround /\ hist'.landed = SpawnTarget /\ hist'.steps = 1

\* C29: after the initial levels are generated there is a platform reachable
\* from the spawn point (187.5, 100): a player that receives no input comes down
\* on it and stays on it, and no failure (fell_too_far, fell_into_void) is
\* raised before or after it lands.
SpawnLands == []SpawnSafe /\ [][SpawnFalls]_vars

\* the player has landed on the start platform after a restart of the game, in
\* frames of 1/60 s
SpawnLandsWitness ==
  /\ hist.last.op = "gameStep" /\ hist.kind = "play"
  /\ hist.given = TicksPerSecond \div 60
  /\ hist.restarts = 1
  /\ hist.landed = SpawnTarget
  /\ player.onGround /\ player.y = StandingY(hist.landed)
  /\ heap[hist.landed].layer = 0 /\ heap[hist.landed].stepCount = 1

-----------------------------------------------------------------------------
(* SpecTerminal: one Fragile or Disappearing platform from the pool, in the     *)
(* world's list, with the player in the position of a landing on it; any        *)
(* sequence of onPlayerStep, update and checkCollisionWithPlayer calls, of the  *)
(* game's platform-update stage, and its release to and retrieval from the pool.*)

MaxTerminalSteps == 3
MaxTerminalTicks == 260
\* Fragile platforms of durability 2 and 1, a Disappearing one with a delay of 0.8 s
TerminalKinds == {<<FRAGILE, 20>>, <<FRAGILE, 40>>, <<DISAPPEARING, 40>>}

\* the platform get returns for the layer, as generatePlatforms makes it
TerminalGet(w, type, layerNum) ==
  LET Got(o) == PoolGet(o, type, 0, LandingY(layerNum), 110 * PX, 20 * PX, layerNum)
      Listed(a) ==
        [a EXCEPT !.heap[a.ret] =
                    ApplySpecialPlatformProperties(@, CalculateDifficulty(layerNum)),
                  !.platforms = <<a.ret>>]
  IN  With(With(w, Got), Listed)

\* hist.given is the platform; the player falls, its feet 2 px inside the top face
InitTerminal ==
  \E kind \in TerminalKinds :
    \E layerNum \in {kind[2]}, w \in {TerminalGet(PoolNew(NowStart), kind[1], kind[2])} :
      /\ heap = w.heap /\ pools = w.pools /\ stats = w.stats
      /\ platforms = w.platforms
      /\ player = [PlayerNew EXCEPT
                     !.x = 0,
                     !.y = LandingY(layerNum) - 10 * PX - (PlayerHeight * PX) \div 2 + 2 * PX,
                     !.vy = 300 * VelScale]
      /\ game = NoGame /\ gen = NoGen
      /\ now = NowStart
      /\ hist = [NoHist EXCEPT !.given = w.ret]

\* platform.onPlayerStep(player)
TerminalStepAct ==
  /\ hist.stepCalls < MaxTerminalSteps
  /\ ~heap[hist.given].pooled
  /\ \E r \in {OnPlayerStep(heap[hist.given], player, 0, now)} :
       /\ heap' = [heap EXCEPT ![hist.given] = r.p]
       /\ hist' = [hist EXCEPT !.stepCalls = @ + 1,
                               !.last = [op |-> "step", idx |-> hist.given,
                                         reused |-> r.ret]]
  /\ UNCHANGED <<pools, stats, platforms, player, game, gen, now>>

\* platform.update(dt)
TerminalUpdateAct ==
  /\ hist.elapsed < MaxTerminalTicks
  /\ ~heap[hist.given].pooled
  /\ \E dt \in {TicksPerSecond \div 30} :
       /\ heap' = [heap EXCEPT ![hist.given] = PlatformUpdate(@, dt)]
       /\ now' = now + dt
       /\ hist' = [hist EXCEPT !.elapsed = @ + dt,
                               !.last = [op |-> "update", idx |-> hist.given,
                                         reused |-> FALSE]]
  /\ UNCHANGED <<pools, stats, platforms, player, game, gen>>

\* platform.checkCollisionWithPlayer(player)
TerminalCheckAct ==
  /\ ~heap[hist.given].pooled
  /\ \E c \in {CheckCollisionWithPlayer(heap[hist.given], player)} :
       /\ heap' = [heap EXCEPT ![hist.given] = c.p]
       /\ hist' = [hist EXCEPT !.last = [op |-> "check", idx |-> hist.given,
                                         reused |-> c.hit]]
  /\ UNCHANGED <<pools, stats, platforms, player, game, gen, now>>

\* the platform-update stage of a frame: updatePlatforms(dt)
TerminalStageAct ==
  /\ hist.elapsed < MaxTerminalTicks
  /\ platforms # <<>>
  /\ \E dt \in {TicksPerSecond \div 30} :
       /\ Commit(UpdatePlatforms([World EXCEPT !.now = now + dt], dt))
       /\ now' = now + dt
       /\ hist' = [hist EXCEPT !.elapsed = @ + dt,
                               !.last = [op |-> "stage", idx |-> hist.given,
                                         reused |-> FALSE]]

\* platformPool.release(platform) of the platform that left the list
TerminalReleaseAct ==
  /\ platforms = <<>>
  /\ ~heap[hist.given].pooled
  /\ Commit(PoolRelease(World, hist.given))
  /\ hist' = [hist EXCEPT !.last = [op |-> "release", idx |-> hist.given,
                                    reused |-> FALSE]]
  /\ UNCHANGED now

\* the generator gets a platform of the type again
TerminalGetAct ==
  /\ platforms = <<>>
  /\ heap[hist.given].pooled
  /\ \E w \in {TerminalGet(World, heap[hist.given].platformType, heap[hist.given].layer)} :
       /\ Commit(w)
       /\ hist' = [hist EXCEPT !.last = [op |-> "get", idx |-> w.ret,
                                         reused |-> w.ret = hist.given]]
  /\ UNCHANGED now

NextTerminal ==
  \/ TerminalStepAct \/ TerminalUpdateAct \/ TerminalCheckAct
  \/ TerminalStageAct \/ TerminalReleaseAct \/ TerminalGetAct

SpecTerminal == InitTerminal /\ [][NextTerminal]_vars

\* a call of update, onPlayerStep or checkCollisionWithPlayer on the destroyed
\* platform changes none of its fields, and neither of the last two returns true
DestroyedStaysAsItIs ==
  (heap[hist.given].destroyed /\ hist'.last.op \in {"update", "step", "check"})
    => /\ heap'[hist.given] = heap[hist.given]
       /\ ~hist'.last.reused

\* the platform-update stage leaves the destroyed platform as it is and takes it
\* out of the world's list
DestroyedIsRemoved ==
  (heap[hist.given].destroyed /\ hist'.last.op = "stage")
    => /\ heap'[hist.given] = heap[hist.given]
       /\ hist.given \notin SeqToSet(platforms')

\* only the pool's release (its reset) ends the destroyed state; get then hands
\* the platform out as new
DestroyedUntilReset ==
  /\ (heap[hist.given].destroyed /\ ~heap'[hist.given].destroyed)
       => hist'.last.op = "release" /\ heap'[hist.given].pooled
  /\ (hist'.last.op = "get" /\ hist'.last.reused)
       => /\ ~heap'[hist.given].destroyed /\ heap'[hist.given].solid
          /\ heap'[hist.given].stepCount = 0 /\ ~heap'[hist.given].activated
          /\ heap'[hist.given].disappearTimer = 0

\* C31: once a platform is destroyed it stays destroyed under any sequence of
\* update, onPlayerStep and checkCollisionWithPlayer calls; destroyed, it never
\* confirms a landing, onPlayerStep changes no field, its type-specific update no
\* longer runs, and the next platform-update stage removes it from the world's
\* list; only a reset through the pool returns it to Active.
DestroyedIsTerminal ==
  [][DestroyedStaysAsItIs /\ DestroyedIsRemoved /\ DestroyedUntilReset]_vars

\* a Disappearing platform destroyed by its countdown after one step has refused
\* a landing and a second step and is still in the world's list
DestroyedIsTerminalWitness ==
  /\ heap[hist.given].platformType = DISAPPEARING
  /\ heap[hist.given].destroyed
  /\ heap[hist.given].stepCount = 1
  /\ hist.stepCalls = 2
  /\ hist.last.op = "check" /\ ~hist.last.reused
  /\ hist.given \in SeqToSet(platforms)

-----------------------------------------------------------------------------
(* SpecRestart: restarts, by the timer and by the application, of a game whose  *)
(* player lands on an Ice platform, passes the last layer, or loses its last    *)
(* life in the last layer.                                                      *)

MaxRestartFrames == 3
RestartCases == {<<IceLayer, ICE, PlayerMaxLives>>, <<MaxLayer, NORMAL, PlayerMaxLives>>,
                 <<MaxLayer, DANGEROUS, 1>>}

InitRestart ==
  \E c \in RestartCases :
    Moment(c[1], c[2], LandingGap, 0, 300 * VelScale, 18 * PX, c[3])

NextRestart ==
  \/ GameStepAct(MaxRestartFrames, FrameTimes, StepRand)
  \/ AppRestartAct
  \/ RestartTimerAct

SpecRestart == InitRestart /\ [][NextRestart]_vars

\* C39: after restart() the player is in its initial state - at the spawn point,
\* with zero velocity, lives = maxLives, not destroyed, not invulnerable, not
\* frozen (freeze timer 0), input released -, the game is running and not
\* paused, and the world holds only freshly generated platforms.
RestartGivesInitialState ==
  [][hist'.last.op \in RestartOps
       => /\ player'.x = (PlayerSpawnX2 * PX) \div 2 /\ player'.y = PlayerSpawnY * PX
          /\ player'.vx = 0 /\ player'.vy = 0
          /\ player'.lives = player'.maxLives
          /\ ~player'.destroyed /\ ~player'.isInvulnerable
          /\ ~player'.isFrozen /\ player'.freezeTime = 0
          /\ ~player'.leftPressed /\ ~player'.rightPressed
          /\ game'.running /\ ~game'.paused
          /\ SeqToSet(platforms') \cap SeqToSet(platforms) = {}
          /\ \A id \in SeqToSet(platforms') :
               /\ ~heap'[id].destroyed /\ ~heap'[id].pooled
               /\ heap'[id].stepCount = 0]_vars

\* what the code does: the player frozen by an Ice platform is still frozen
\* after a restart
RestartedFrozen ==
  /\ hist.last.op \in RestartOps
  /\ player.isFrozen /\ player.freezeTime > 0
  /\ player.y = PlayerSpawnY * PX

\* what the code does: a game paused by gameComplete is still paused after a
\* restart
RestartedPaused ==
  /\ hist.last.op \in RestartOps
  /\ game.paused /\ game.running /\ game.currentState = "playing"

\* all but the freeze and the pause is as it is at the start
RestartResetsTheRest ==
  [][hist'.last.op \in RestartOps
       => /\ player'.x = (PlayerSpawnX2 * PX) \div 2 /\ player'.y = PlayerSpawnY * PX
          /\ player'.vx = 0 /\ player'.vy = 0
          /\ player'.lives = player'.maxLives
          /\ ~player'.destroyed /\ ~player'.isInvulnerable
          /\ player'.isFrozen = player.isFrozen /\ player'.freezeTime = player.freezeTime
          /\ ~player'.leftPressed /\ ~player'.rightPressed
          /\ game'.running /\ game'.paused = game.paused
          /\ SeqToSet(platforms') \cap SeqToSet(platforms) = {}
          /\ \A id \in SeqToSet(platforms') :
               /\ ~heap'[id].destroyed /\ ~heap'[id].pooled
               /\ heap'[id].stepCount = 0]_vars

-----------------------------------------------------------------------------
(* SpecActive: a game from a new, pre-warmed pool whose player has fallen to    *)
(* the depth at which the start platform reaches the cleanup distance; the      *)
(* layers down to eight below the player are generated.  Frames and restarts by *)
(* the application.                                                             *)

MaxActiveFrames == 3
ActiveTimes == {TicksPerSecond \div 60, TicksPerSecond \div 30}
\* the y of the player below which updatePlatforms removes the start platform
StartGoneY == 210 * PX + (CanvasHeight * 21 * PX) \div 2

\* initialize(), then the layers updateLevelGeneration has added on the way down
ActiveWorld(seed, y) ==
  LET o == [DrainedPool(NowStart) EXCEPT
              !.stats = NoStats, !.gen.seed = seed,
              !.game = [GameNew EXCEPT !.hasCompletedTutorial = TRUE]]
      playerLayer == Max(1, CeilDiv(y, LayerHeightPx * PX))
      Initialized(v) == Initialize(v, seed)
      Deeper(v) ==
        GenerateLayers(v, v.game.maxGeneratedLayer + 1,
                       Min(playerLayer + AheadLayersMin, MaxLayer), seed, FALSE, TRUE)
      Placed(v) ==
        [v EXCEPT !.player = [@ EXCEPT !.x = 0, !.y = y, !.vy = 300 * VelScale],
                  !.game.currentLayer = playerLayer,
                  !.game.generationLimitPerFrame = 0,
                  !.events = <<>>]
  IN  With(With(With(With(o, PreWarmPools), Initialized), Deeper), Placed)

InitActive ==
  \E seed \in Seeds, h \in {4 * PX, 12 * PX} :
    \E w \in {ActiveWorld(seed, StartGoneY - h)} :
      /\ heap = w.heap /\ pools = w.pools /\ stats = w.stats
      /\ platforms = w.platforms /\ player = w.player /\ game = w.game
      /\ gen = w.gen /\ now = NowStart
      /\ hist = [NoHist EXCEPT !.clock.sinceStart = 1]

NextActive ==
  \/ GameStepAct(MaxActiveFrames, ActiveTimes, {0})
  \/ AppRestartAct

SpecActive == InitActive /\ [][NextActive]_vars

\* the platforms get has handed out that are not back on a free list; the start
\* platform, made with new Platform, is the one of layer 0
Outstanding ==
  Cardinality({i \in 1..Len(heap) : ~heap[i].pooled /\ heap[i].layer # 0})

\* C40: stats.currentActive is never negative and equals the number of platforms
\* handed out by get that have not yet been returned to a free list.
ActiveIsOutstanding ==
  stats.currentActive >= 0 /\ stats.currentActive = Outstanding

\* what the code does: the release of the start platform takes one from the
\* counter though no get had counted it
StartPlatformReleased ==
  /\ hist.last.op = "gameStep" /\ hist.restarts = 0
  /\ stats.totalReleased = 1
  /\ stats.currentActive = Outstanding - 1

-----------------------------------------------------------------------------
(* SpecDifficulty: calculateDifficulty for two layers, one after the other.     *)

\* the platform count generatePlatforms uses, and the special-platform chance
DifficultyOf(layerNum) ==
  [layer |-> layerNum,
   count |-> CalculateDifficulty(layerNum).platformCount \div 10,
   chance |-> CalculateDifficulty(layerNum).specialPlatformChance]

InitDifficulty ==
  /\ heap = <<>> /\ pools = NoPools /\ stats = NoStats /\ platforms = <<>>
  /\ player = PlayerNew /\ game = NoGame /\ gen = NoGen /\ now = NowStart
  /\ hist = NoHist

\* levelGenerator.calculateDifficulty(layerNum); the last two results are kept
CalculateAct ==
  /\ \E layerNum \in 1..MaxLayer :
       /\ gen' = [gen EXCEPT !.layer = layerNum]
       /\ hist' = [hist EXCEPT !.calc =
                     (IF Len(@) = 2 THEN Tail(@) ELSE @) \o <<DifficultyOf(layerNum)>>]
  /\ UNCHANGED <<heap, pools, stats, platforms, player, game, now>>

NextDifficulty == CalculateAct

SpecDifficulty == InitDifficulty /\ [][NextDifficulty]_vars

\* C9: for layers n <= m in 1..100 the platform count of n is at least that of
\* m and the special-platform chance of n at most that of m; every count is in
\* 2..5 and every chance at most 70 percent.
DifficultyMonotone ==
  /\ \A i \in 1..Len(hist.calc) :
       /\ hist.calc[i].count \in MinPlatforms..MaxPlatforms
       /\ hist.calc[i].chance <= SpecialCapPercent
  /\ \A i, j \in 1..Len(hist.calc) :
       hist.calc[i].layer <= hist.calc[j].layer =>
         /\ hist.calc[i].count >= hist.calc[j].count
         /\ hist.calc[i].chance <= hist.calc[j].chance

\* a later layer with fewer platforms and the chance at its cap
DifficultyWitness ==
  /\ Len(hist.calc) = 2
  /\ hist.calc[1].layer < hist.calc[2].layer
  /\ hist.calc[1].count > hist.calc[2].count
  /\ hist.calc[1].chance < hist.calc[2].chance
  /\ hist.calc[2].chance = SpecialCapPercent

====
